---- MODULE Spec2Model ----
(***************************************************************************)
(* Verification model of auto-docs: the generate command (both CLI         *)
(* implementations), the documentation generators, the parser dispatch and *)
(* the heuristic extractors and the watch command (both implementations).  *)
(* Each subsystem has its own specification (SpecGen, SpecRender,          *)
(* SpecRenderFile, SpecParse, SpecExtract, SpecWatch) over one shared set  *)
(* of variables; a specification leaves the variables of the other         *)
(* subsystems at their idle values.                                        *)
(***************************************************************************)
EXTENDS Integers, Sequences, FiniteSets, TLC

(***************************************************************************)
(* Bounds of the model.                                                    *)
(***************************************************************************)
MaxFiles == 3
MaxResults == 2
MaxFuncs == 2
MaxLines == 3
MaxParams == 2
MaxEvents == 3

(***************************************************************************)
(* Generic helpers.                                                        *)
(***************************************************************************)
SeqsUpTo(S, n) == UNION {[1..k -> S] : k \in 0..n}

Range(s) == {s[k] : k \in 1..Len(s)}

VARIABLES
  \* ---- generate command (src/unnamed/part_000, src/cli/commands/generate.ts)
  impl,          \* "core" (part_000) or "cli" (cli/commands/generate.ts)
  options,       \* [verbose, dryRun, logLevel]
  files,         \* the scanned files, in scan order
  genPc,         \* position of the generate command
  idx,           \* loop index i (1-based here)
  parsedFiles,   \* cli only: result of parseFiles
  results,       \* documentationResults / documentedFiles (paths, in push order)
  reported,      \* user-visible (path, reason) lines printed so far
  counts,        \* user-visible counts printed so far: set of [count, n]
  emitted,       \* artifacts written by the output step
  exitCode,      \* 0, or 1 after process.exit(1)
  \* ---- generateDocumentation (src/src/core/generators)
  renFormat,     \* options.format
  renResults,    \* results: DocumentationResult[]
  renTemplate,   \* text of templates/html-template.html, or the built-in one
  renPc,         \* position of generateDocumentation
  renIdx,        \* index of the result being rendered
  artifacts,     \* files of the output directory: set of [name, owner, content]
  renError,      \* the error generateDocumentation rejected with, or "none"
  \* ---- parseCode / parseFile (src/src/core/parsers, src/cli/services/parser.ts)
  parImpl,       \* "core" (parseCode) or "cli" (parseFile)
  parFile,       \* the file: [ext, readable, content]
  parPc,         \* position inside parseCode / parseFile
  parLanguage,   \* the language chosen by the dispatch, or "none"
  extractorRan,  \* the extractors called so far
  parReturn,     \* "pending", "module", "null" or "throw"
  parsedCode,        \* <<>> or <<the returned ParsedCodeFile>>
  parseError,    \* the error thrown: [kind, detail]
  baseResult,    \* the lists of the base record that parseCode hands to the extractor
  \* ---- watch command (src/src/cli/commands/watch.ts, src/cli/services/parser.ts)
  watchImpl,     \* "core" (commands/watch.ts) or "cli" (services/parser.ts)
  watchPc,       \* "start", "initial" (cli: first generation awaited) or "watching"
  timeoutId,     \* the debounce timer: "null", "pending" or "fired"
  isGenerating,  \* core only: the flag of regenerateDocumentation
  regenPc,       \* core only: position of the regeneration that holds the flag
  inProgress,    \* number of regenerations that have started and not yet ended
  events,        \* number of add/change/unlink events emitted so far
  unserved,      \* an event was handled and no regeneration has started since
  unlaunched,    \* an event was handled and no generate run was launched since
  skipped        \* a timer fired while isGenerating was set

genVars == <<impl, options, files, genPc, idx, parsedFiles, results, reported,
             counts, emitted, exitCode>>

renVars == <<renFormat, renResults, renTemplate, renPc, renIdx, artifacts, renError>>

parVars == <<parImpl, parFile, parPc, parLanguage, extractorRan, parReturn,
             parsedCode, parseError, baseResult>>

watVars == <<watchImpl, watchPc, timeoutId, isGenerating, regenPc, inProgress,
             events, unserved, unlaunched, skipped>>

notGen == <<renVars, parVars, watVars>>

notRen == <<genVars, parVars, watVars>>

notPar == <<genVars, renVars, watVars>>

notWat == <<genVars, renVars, parVars>>

vars == <<genVars, renVars, parVars, watVars>>

WatIdle ==
  /\ watchImpl = "none"
  /\ watchPc = "idle"
  /\ timeoutId = "null"
  /\ isGenerating = FALSE
  /\ regenPc = "idle"
  /\ inProgress = 0
  /\ events = 0
  /\ unserved = FALSE
  /\ unlaunched = FALSE
  /\ skipped = FALSE

RenIdle ==
  /\ renFormat = "none"
  /\ renResults = <<>>
  /\ renTemplate = <<>>
  /\ renPc = "idle"
  /\ renIdx = 0
  /\ artifacts = {}
  /\ renError = "none"

NoError == [kind |-> "none", detail |-> <<>>]

\* functions: [], classes: [], imports: [], exports: [] of parseCode lines 20-28
NewBaseResult == [functions |-> <<>>, classes |-> <<>>, imports |-> <<>>, exports |-> <<>>]

NoFile == [ext |-> <<>>, readable |-> FALSE,
           content |-> [looks |-> "none", lines |-> <<>>, ast |-> <<>>]]

ParIdle ==
  /\ parImpl = "none"
  /\ parFile = NoFile
  /\ parPc = "idle"
  /\ parLanguage = "none"
  /\ extractorRan = {}
  /\ parReturn = "pending"
  /\ parsedCode = <<>>
  /\ parseError = NoError
  /\ baseResult = NewBaseResult

(***************************************************************************)
(* The generate command.                                                   *)
(*                                                                         *)
(* A scanned file is described by what reading and parsing it does and by  *)
(* what the prose service does when called for it:                         *)
(*   kind "unreadable": fs.readFile rejects                                *)
(*   kind "blank":      content.trim() is empty                            *)
(*   kind "syntaxerr":  a JS/TS file that @babel/parser rejects            *)
(*   kind "nosymbols":  parses, has no function and no class               *)
(*   kind "code":       parses, has at least one function or class         *)
(* prose "ok" / "throw": the prose service resolves / rejects.             *)
(***************************************************************************)
FileKinds == {"unreadable", "blank", "syntaxerr", "nosymbols", "code"}

\* the prose outcome is an input only for files that can reach the prose call
FileBehaviours ==
  {[kind |-> k, prose |-> p] : k \in {"syntaxerr", "nosymbols", "code"},
                                p \in {"ok", "throw"}}
  \cup {[kind |-> k, prose |-> "ok"] : k \in {"unreadable", "blank"}}

\* scanFiles returns unique, sorted paths: the path of the k-th file is k
ScannedFiles ==
  {[k \in 1..Len(b) |-> [path |-> k, kind |-> b[k].kind, prose |-> b[k].prose]] :
     b \in SeqsUpTo(FileBehaviours, MaxFiles)}

GenOptions ==
  {[impl |-> "core", verbose |-> FALSE, dryRun |-> FALSE, logLevel |-> l] :
     l \in {"DEBUG", "INFO"}}
  \cup {[impl |-> "cli", verbose |-> v, dryRun |-> d, logLevel |-> "INFO"] :
     v \in BOOLEAN, d \in BOOLEAN}

\* parseCode (core): "throw", or the number-of-symbols class of the Module
CoreParseOutcome(file) ==
  CASE file.kind = "unreadable" -> "throw"
    [] file.kind = "syntaxerr"  -> "throw"
    [] file.kind = "blank"      -> "empty"
    [] file.kind = "nosymbols"  -> "empty"
    [] OTHER                    -> "symbols"

\* parseFile (cli): "throw", "null", or a ParsedFile; a Babel failure is caught
\* inside parseJSLike and answered with extractWithRegex
CliParseOutcome(file) ==
  CASE file.kind = "unreadable" -> "throw"
    [] file.kind = "blank"      -> "null"
    [] file.kind = "syntaxerr"  -> "fallback"
    [] file.kind = "nosymbols"  -> "parsed"
    [] OTHER                    -> "parsed"

\* Logger.shouldLog: level >= currentLevel, DEBUG = 0 < INFO = 1 < ERROR = 3
ShouldLog(level) ==
  CASE level = "DEBUG" -> options.logLevel = "DEBUG"
    [] OTHER           -> TRUE

Report(path, reason) == [path |-> path, reason |-> reason]

Count(label, n) == [count |-> label, n |-> n]

NothingEmitted == [perFile |-> {}, index |-> FALSE]

GenIdle ==
  /\ impl = "none"
  /\ options = [impl |-> "none", verbose |-> FALSE, dryRun |-> FALSE,
                logLevel |-> "INFO"]
  /\ files = <<>>
  /\ genPc = "idle"
  /\ idx = 0
  /\ parsedFiles = <<>>
  /\ results = <<>>
  /\ reported = {}
  /\ counts = {}
  /\ emitted = NothingEmitted
  /\ exitCode = 0

InitGen ==
  /\ options \in GenOptions
  /\ impl = options.impl
  /\ files \in ScannedFiles
  /\ genPc = "scan"
  /\ idx = 0
  /\ parsedFiles = <<>>
  /\ results = <<>>
  /\ reported = {}
  /\ counts = {}
  /\ emitted = NothingEmitted
  /\ exitCode = 0
  /\ RenIdle
  /\ ParIdle
  /\ WatIdle

\* after scanFiles: the empty-input return, the dry-run return, or enter the loop
GenStart ==
  /\ genPc = "scan"
  /\ IF Len(files) = 0
       THEN /\ genPc' = "done"
            /\ UNCHANGED <<idx, counts>>
       ELSE /\ counts' = counts \cup {Count("attempted", Len(files))}
            /\ IF impl = "cli" /\ options.dryRun
                 THEN genPc' = "done" /\ UNCHANGED idx
                 ELSE /\ genPc' = IF impl = "cli" THEN "parse" ELSE "loop"
                      /\ idx' = 1
  /\ UNCHANGED <<impl, options, files, parsedFiles, results, reported, emitted,
                 exitCode>>
  /\ UNCHANGED notGen

\* part_000: the catch block of the per-file loop logs and continues
CoreFailFast(i) == Len(files) + 1

CoreAfterFailure(i) == i + 1

\* part_000 lines 71-103: one iteration of the per-file loop
CoreProcessFile ==
  /\ genPc = "loop"
  /\ impl = "core"
  /\ idx <= Len(files)
  /\ LET file == files[idx]
         parsed == CoreParseOutcome(file)
     IN CASE parsed = "throw" ->
               /\ reported' = reported \cup {Report(file.path, "parse-failed")}
               /\ idx' = CoreAfterFailure(idx)
               /\ UNCHANGED results
          [] parsed = "empty" ->
               /\ reported' = IF ShouldLog("DEBUG")
                                THEN reported \cup {Report(file.path, "no-documentable-code")}
                                ELSE reported
               /\ idx' = idx + 1
               /\ UNCHANGED results
          [] OTHER ->
               IF file.prose = "throw"
                 THEN /\ reported' = reported \cup {Report(file.path, "prose-failed")}
                      /\ idx' = CoreAfterFailure(idx)
                      /\ UNCHANGED results
                 ELSE /\ results' = Append(results, file.path)
                      /\ idx' = idx + 1
                      /\ UNCHANGED reported
  /\ UNCHANGED <<impl, options, files, genPc, parsedFiles, counts, emitted, exitCode>>
  /\ UNCHANGED notGen

\* cli/services/parser.ts parseFiles: one iteration of the loop over filePaths
CliParseFile ==
  /\ genPc = "parse"
  /\ impl = "cli"
  /\ idx <= Len(files)
  /\ LET file == files[idx]
         parsed == CliParseOutcome(file)
     IN CASE parsed = "throw" ->
               /\ reported' = IF options.verbose
                                THEN reported \cup {Report(file.path, "parse-failed")}
                                ELSE reported
               /\ UNCHANGED parsedFiles
          [] parsed = "null" ->
               UNCHANGED <<reported, parsedFiles>>
          [] OTHER ->
               /\ parsedFiles' = Append(parsedFiles, file)
               /\ UNCHANGED reported
  /\ idx' = idx + 1
  /\ UNCHANGED <<impl, options, files, genPc, results, counts, emitted, exitCode>>
  /\ UNCHANGED notGen

\* cli generate.ts lines 52-61: parseFiles returned
CliParseDone ==
  /\ genPc = "parse"
  /\ impl = "cli"
  /\ idx > Len(files)
  /\ IF Len(parsedFiles) = 0
       THEN genPc' = "done" /\ UNCHANGED idx
       ELSE genPc' = "loop" /\ idx' = 1
  /\ UNCHANGED <<impl, options, files, parsedFiles, results, reported, counts,
                 emitted, exitCode>>
  /\ UNCHANGED notGen

\* cli generate.ts lines 65-91: one iteration of the loop over parsedFiles
CliDocumentFile ==
  /\ genPc = "loop"
  /\ impl = "cli"
  /\ idx <= Len(parsedFiles)
  /\ LET parsedFile == parsedFiles[idx]
     IN IF parsedFile.prose = "throw"
          THEN /\ reported' = reported \cup {Report(parsedFile.path, "prose-failed")}
               /\ UNCHANGED results
          ELSE /\ results' = Append(results, parsedFile.path)
               /\ UNCHANGED reported
  /\ idx' = idx + 1
  /\ UNCHANGED <<impl, options, files, genPc, parsedFiles, counts, emitted, exitCode>>
  /\ UNCHANGED notGen

LoopLength == IF impl = "cli" THEN Len(parsedFiles) ELSE Len(files)

\* part_000 lines 105-119, cli generate.ts lines 95-114: the output step.  The
\* write either completes (every per-file artifact and the index) or throws at
\* the k-th result, which the outer catch answers with process.exit(1).
GenerateOutput ==
  /\ genPc = "loop"
  /\ idx > LoopLength
  /\ IF Len(results) = 0
       THEN /\ genPc' = "done"
            /\ UNCHANGED <<counts, emitted, exitCode>>
       ELSE \/ /\ emitted' = [perFile |-> Range(results), index |-> TRUE]
               /\ counts' =
                    IF impl = "core"
                      THEN counts \cup {Count("succeeded", Len(results))}
                      ELSE counts \cup {Count("succeeded", Len(results))}
                             \cup (IF Len(results) < Len(files)
                                     THEN {Count("skipped", Len(files) - Len(results))}
                                     ELSE {})
               /\ genPc' = "done"
               /\ UNCHANGED exitCode
            \/ \E k \in 1..Len(results) :
                 /\ emitted' = [perFile |-> {results[j] : j \in 1..(k - 1)},
                                 index |-> FALSE]
                 /\ exitCode' = 1
                 /\ genPc' = "failed"
                 /\ UNCHANGED counts
  /\ UNCHANGED <<impl, options, files, idx, parsedFiles, results, reported>>
  /\ UNCHANGED notGen

NextGen ==
  \/ GenStart
  \/ CoreProcessFile
  \/ CliParseFile
  \/ CliParseDone
  \/ CliDocumentFile
  \/ GenerateOutput

SpecGen == InitGen /\ [][NextGen]_vars

(***************************************************************************)
(* Properties of the generate command.                                     *)
(***************************************************************************)
\* the per-file loops have run to their end (not the dry-run return)
LoopsFinished ==
  /\ genPc \in {"done", "failed"}
  /\ ~(impl = "cli" /\ options.dryRun /\ Len(files) > 0)

PathsOf(fs) == [k \in 1..Len(fs) |-> fs[k].path]

Prefix(s, n) == SubSeq(s, 1, n)

IsPrefix(s, t) == Len(s) <= Len(t) /\ s = SubSeq(t, 1, Len(s))

CoreDocumented(f) == f.kind = "code" /\ f.prose = "ok"

CliKept(f) == f.kind \in {"syntaxerr", "nosymbols", "code"}

CliDocumented(f) == f.prose = "ok"

\* C1 as stated: whichever command runs, the result list is the files that
\* parsed, had at least one function or class and received prose, in scan order
C1_AsStated ==
  LoopsFinished => results = PathsOf(SelectSeq(files, CoreDocumented))

\* C1 (amended): no failure stops the loop or removes a result.  At every point
\* of the core loop the results are exactly the files already visited that
\* parsed, had a function or class and received prose, in scan order; the cli
\* command keeps every readable non-blank file (a JS/TS syntax error gets the
\* regex fallback, a file without functions or classes is kept) and its results
\* are those of them that received prose, in scan order.
C1_FailIndependent ==
  /\ (impl = "core" /\ genPc = "loop") =>
        results = PathsOf(SelectSeq(Prefix(files, idx - 1), CoreDocumented))
  /\ (impl = "cli" /\ genPc = "parse") =>
        parsedFiles = SelectSeq(Prefix(files, idx - 1), CliKept)
  /\ (impl = "cli" /\ genPc = "loop") =>
        /\ parsedFiles = SelectSeq(files, CliKept)
        /\ results = PathsOf(SelectSeq(Prefix(parsedFiles, idx - 1), CliDocumented))
  /\ LoopsFinished =>
        results = IF impl = "core"
                    THEN PathsOf(SelectSeq(files, CoreDocumented))
                    ELSE PathsOf(SelectSeq(SelectSeq(files, CliKept), CliDocumented))

\* C1 witness: the loops are over, a file failed and a later file is a result
C1_Witness ==
  /\ LoopsFinished
  /\ \E i, j \in 1..Len(files) :
       /\ i < j
       /\ files[i].kind = "unreadable" \/ files[i].prose = "throw"
       /\ \E k \in 1..Len(results) : results[k] = files[j].path

\* C3 as stated: a file that was extracted and whose prose call failed is still
\* rendered (with placeholder prose), whenever the run gets to write its output
C3_ProseFailureKept ==
  (LoopsFinished /\ exitCode = 0) =>
     \A k \in 1..Len(files) :
        (files[k].kind = "code" /\ files[k].prose = "throw") =>
           files[k].path \in emitted.perFile

\* the count printed under a label; nothing printed for "skipped" reads as 0
Printed(label) == {c.n : c \in {x \in counts : x.count = label}}

\* C6 as stated: at the end of a run that wrote its output, the printed
\* counts satisfy attempted = succeeded + skipped, every file that is not a
\* result was printed with its path and a reason, and the results' artifacts
\* were written
C6_RunReport ==
  (genPc = "done" /\ Len(results) > 0) =>
     /\ \E a \in Printed("attempted"), s \in Printed("succeeded") :
          \/ a = s /\ Printed("skipped") \subseteq {0}
          \/ \E k \in Printed("skipped") : a = s + k
     /\ \A f \in Range(files) :
          (\A r \in 1..Len(results) : results[r] # f.path) =>
             \E line \in reported : line.path = f.path
     /\ emitted.perFile = Range(results)

(***************************************************************************)
(* The documentation generators (src/src/core/generators).                 *)
(*                                                                         *)
(* Text is a sequence of tokens [t, v].  A template is text whose tokens   *)
(* of type "slot" are the {{NAME}} markers.  Prose is described by the set *)
(* of optional fields the prose service supplied ("has").                  *)
(***************************************************************************)
Tok(t, v) == [t |-> t, v |-> v]

Slot(name) == Tok("slot", name)

\* a path or file name, written part by part
Spell(t, parts) == [k \in 1..Len(parts) |-> Tok(t, parts[k])]

\* the markers in the order generateHTMLForFile replaces them
SlotNames ==
  <<"TITLE", "FILE_PATH", "LANGUAGE", "DESCRIPTION", "TABLE_OF_CONTENTS",
    "FUNCTIONS", "CLASSES", "EXPORTS", "USAGE", "NOTES", "GENERATED_DATE">>

\* getDefaultHTMLTemplate: {{TITLE}} occurs in <title> and in <h1>
getDefaultHTMLTemplate ==
  <<Tok("lit", "<head>"), Slot("TITLE"), Tok("lit", "<body>"), Slot("TITLE"),
    Slot("FILE_PATH"), Slot("LANGUAGE"), Slot("DESCRIPTION"),
    Slot("TABLE_OF_CONTENTS"), Slot("FUNCTIONS"), Slot("CLASSES"),
    Slot("EXPORTS"), Slot("USAGE"), Slot("NOTES"), Slot("GENERATED_DATE")>>

\* templates/html-template.html: {{TITLE}} occurs in <title>, <meta> and <h1>
ShippedTemplate ==
  <<Tok("lit", "<head>"), Slot("TITLE"), Slot("TITLE"), Tok("lit", "<body>"),
    Slot("TITLE"), Slot("FILE_PATH"), Slot("LANGUAGE"), Slot("DESCRIPTION"),
    Slot("TABLE_OF_CONTENTS"), Slot("FUNCTIONS"), Slot("CLASSES"),
    Slot("EXPORTS"), Slot("USAGE"), Slot("NOTES"), Slot("GENERATED_DATE")>>

\* a template file edited so that it lacks the marker `name`
WithoutSlot(template, name) == SelectSeq(template, LAMBDA tok : tok # Slot(name))

\* what loadHTMLTemplate can return: the file's text, or the built-in template
Templates ==
  {getDefaultHTMLTemplate, ShippedTemplate}
  \cup {WithoutSlot(ShippedTemplate, SlotNames[k]) : k \in 1..Len(SlotNames)}

MissingSlots(template) ==
  {SlotNames[k] : k \in {j \in 1..Len(SlotNames) : Slot(SlotNames[j]) \notin Range(template)}}

\* the text of a marker
Marker(name) == "{{" \o name \o "}}"

\* the replacement pattern that String.prototype.replace expands to the match
MatchPattern == "$&"

\* a word of prose as it stands in hypertext: a word spelled like a marker is
\* that marker's text
HtmlText(word) ==
  IF \E k \in 1..Len(SlotNames) : word = Marker(SlotNames[k])
    THEN Slot(SlotNames[CHOOSE k \in 1..Len(SlotNames) : word = Marker(SlotNames[k])])
    ELSE Tok("text", word)

\* String.prototype.replace(marker, value) with a string pattern: the first
\* occurrence only; text without the marker is returned as it is; $& in the
\* replacement stands for the matched marker
ReplaceFirst(text, name, value) ==
  LET hits == {k \in 1..Len(text) : text[k] = Slot(name)}
      expanded == [k \in 1..Len(value) |->
                     IF value[k] = Tok("text", MatchPattern) THEN Slot(name) ELSE value[k]]
  IN IF hits = {}
       THEN text
       ELSE LET k == CHOOSE h \in hits : \A g \in hits : h <= g
            IN SubSeq(text, 1, k - 1) \o expanded \o SubSeq(text, k + 1, Len(text))

RECURSIVE Concat(_)
Concat(ss) == IF ss = <<>> THEN <<>> ELSE Head(ss) \o Concat(Tail(ss))

Thrown(error) == [ok |-> FALSE, error |-> error, text |-> <<>>]

Returned(text) == [ok |-> TRUE, error |-> "none", text |-> text]

\* prose of one function: name, the optional fields present, returns.type
FuncFields == {"description", "parameters", "returns", "example"}

ReturnTypes == {"any", "void", "string", "undefined"}

FuncProse(name, has, returnsType) ==
  [name |-> name, has |-> has, returnsType |-> returnsType]

\* generateFunctionHTML: func.returns?.type !== 'any' is true when func.returns
\* is absent, and func.returns.type then throws a TypeError
generateFunctionHTML(func) ==
  IF "returns" \notin func.has
    THEN Thrown("TypeError")
    ELSE Returned(
      <<Tok("function", func.name)>>
      \o (IF "description" \in func.has THEN <<Tok("p", "function-description")>> ELSE <<>>)
      \o (IF func.returnsType # "any" THEN <<Tok("signature-returns", func.returnsType)>> ELSE <<>>)
      \o (IF "parameters" \in func.has
            THEN <<Tok("param", "p"), Tok("param-description", "No description")>>
            ELSE <<>>)
      \o (IF func.returnsType # "void"
            THEN <<Tok("returns", func.returnsType), Tok("returns-description", "No description")>>
            ELSE <<>>)
      \o (IF "example" \in func.has THEN <<Tok("example", "E")>> ELSE <<>>))

\* xs.map(render).join(''): throws as soon as one element throws
MapJoin(rendered) ==
  IF \E k \in 1..Len(rendered) : ~rendered[k].ok
    THEN Thrown("TypeError")
    ELSE Returned(Concat([k \in 1..Len(rendered) |-> rendered[k].text]))

\* generateClassHTML: each method goes through generateFunctionHTML
generateClassHTML(cls) ==
  LET methods == MapJoin([k \in 1..Len(cls.methods) |-> generateFunctionHTML(cls.methods[k])])
  IN IF ~methods.ok
       THEN methods
       ELSE Returned(<<Tok("class", cls.name)>> \o methods.text)

generateExportHTML(exp) == Returned(<<Tok("export", exp.name)>>)

\* generateTableOfContents: one section per non-empty list
generateTableOfContents(documentation) ==
  (IF "functions" \in documentation.has /\ Len(documentation.functions) > 0
     THEN <<Tok("toc", "Functions")>> ELSE <<>>)
  \o (IF "classes" \in documentation.has /\ Len(documentation.classes) > 0
        THEN <<Tok("toc", "Classes")>> ELSE <<>>)
  \o (IF "exports" \in documentation.has /\ Len(documentation.exports) > 0
        THEN <<Tok("toc", "Exports")>> ELSE <<>>)

\* the fixed placeholder of generateHTMLForFile and of the index generators
NoDescription == Tok("text", "No description available")

\* documentation.functions?.map(f).join('') || ''
OptionalSection(documentation, field, render(_)) ==
  IF field \notin documentation.has
    THEN Returned(<<>>)
    ELSE MapJoin([k \in 1..Len(documentation[field]) |-> render(documentation[field][k])])

\* the value generateHTMLForFile substitutes for each marker
SlotValues(result) ==
  LET documentation == result.documentation
      section(html) == IF html.ok THEN html.text ELSE <<>>
  IN [name \in Range(SlotNames) |->
        CASE name = "TITLE" ->
               IF "title" \in documentation.has
                 THEN [k \in 1..Len(documentation.title) |-> HtmlText(documentation.title[k])]
                 ELSE Spell("text", result.file.base)
          [] name = "FILE_PATH" -> Spell("text", result.file.path)
          [] name = "LANGUAGE" -> <<Tok("text", result.language)>>
          [] name = "DESCRIPTION" ->
               IF "description" \in documentation.has
                 THEN <<Tok("text", "D")>> ELSE <<NoDescription>>
          [] name = "TABLE_OF_CONTENTS" -> generateTableOfContents(documentation)
          [] name = "FUNCTIONS" ->
               section(OptionalSection(documentation, "functions", generateFunctionHTML))
          [] name = "CLASSES" ->
               section(OptionalSection(documentation, "classes", generateClassHTML))
          [] name = "EXPORTS" ->
               section(OptionalSection(documentation, "exports", generateExportHTML))
          [] name = "USAGE" ->
               IF "usage" \in documentation.has THEN <<Tok("text", "U")>> ELSE <<>>
          [] name = "NOTES" ->
               IF "notes" \in documentation.has THEN <<Tok("text", "N")>> ELSE <<>>
          [] OTHER -> <<Tok("text", "date")>>]

\* template.replace(m1, v1).replace(m2, v2)...: one replace per marker, each on
\* the text the previous one returned
RECURSIVE SubstituteSlots(_, _, _)
SubstituteSlots(text, order, values) ==
  IF order = <<>>
    THEN text
    ELSE SubstituteSlots(ReplaceFirst(text, Head(order), values[Head(order)]),
                         Tail(order), values)

\* generateHTMLForFile (html.ts lines 22-51): sections first, then one replace
\* per marker
generateHTMLForFile(result, template) ==
  LET documentation == result.documentation
      functionsHTML == OptionalSection(documentation, "functions", generateFunctionHTML)
      classesHTML == OptionalSection(documentation, "classes", generateClassHTML)
  IN IF ~functionsHTML.ok \/ ~classesHTML.ok
       THEN Thrown("TypeError")
       ELSE Returned(SubstituteSlots(template, SlotNames, SlotValues(result)))

\* formatFunctionForJSON: every access is guarded (?. and ||)
formatFunctionForJSON(func) ==
  Returned(<<Tok("function", func.name),
             Tok("function-description",
                 IF "description" \in func.has THEN "function-description" ELSE "null")>>
           \o (IF "parameters" \in func.has THEN <<Tok("param", "p")>> ELSE <<>>)
           \o <<Tok("returnType", IF "returns" \in func.has /\ func.returnsType # "undefined"
                                     THEN func.returnsType ELSE "void"),
                Tok("example", IF "example" \in func.has THEN "E" ELSE "null")>>)

formatClassForJSON(cls) ==
  Returned(<<Tok("class", cls.name)>>
           \o MapJoin([k \in 1..Len(cls.methods) |-> formatFunctionForJSON(cls.methods[k])]).text)

formatExportForJSON(exp) == Returned(<<Tok("export", exp.name)>>)

\* generateJSONForFile (json.ts lines 25-61)
generateJSONForFile(result) ==
  LET documentation == result.documentation
  IN Returned(
       Spell("fileName", result.file.base)
       \o <<Tok("language", result.language)>>
       \o (IF "title" \in documentation.has
             THEN Spell("title", documentation.title) ELSE Spell("title", result.file.base))
       \o <<Tok("description", IF "description" \in documentation.has THEN "D" ELSE "null")>>
       \o OptionalSection(documentation, "functions", formatFunctionForJSON).text
       \o OptionalSection(documentation, "classes", formatClassForJSON).text
       \o OptionalSection(documentation, "exports", formatExportForJSON).text
       \o <<Tok("usage", IF "usage" \in documentation.has THEN "U" ELSE "null"),
            Tok("notes", IF "notes" \in documentation.has THEN "N" ELSE "null")>>)

\* the structured-text renderer of one file (core generators/markdown.ts)
generateMarkdownForFile(result) ==
  LET documentation == result.documentation
  IN Returned(
       (IF "title" \in documentation.has
          THEN Spell("title", documentation.title) ELSE Spell("title", result.file.base))
       \o <<IF "description" \in documentation.has THEN Tok("text", "D") ELSE NoDescription>>)

SupportedFormats == {"markdown", "html", "json"}

\* getExtensionForFormat / the extension chosen by getOutputFileName
getExtensionForFormat(format) ==
  CASE format = "markdown" -> "md"
    [] format = "html" -> "html"
    [] format = "json" -> "json"
    [] OTHER -> "txt"

\* getOutputFileName: the base name without its extension, plus the extension
getOutputFileName(file, format) ==
  [stem |-> file.stem, ext |-> getExtensionForFormat(format)]

IndexName(format) == [stem |-> "index", ext |-> getExtensionForFormat(format)]

CombinedName == [stem |-> "combined-documentation", ext |-> "json"]

RenderFile(format, result, template) ==
  CASE format = "html" -> generateHTMLForFile(result, template)
    [] format = "json" -> generateJSONForFile(result)
    [] OTHER -> generateMarkdownForFile(result)

\* one entry of the index: generateMarkdownIndex and generateHTMLIndex link to
\* path.basename(getOutputFileName(result.file, format, '.')); the json index
\* (createIndexFile lines 72-82) carries result.file and no link
IndexEntry(format, result) ==
  LET documentation == result.documentation
      docFileName == getOutputFileName(result.file, format)
      title == IF "title" \in documentation.has
                 THEN Spell("title", documentation.title) ELSE Spell("title", result.file.base)
  IN  IF format = "json"
        THEN Spell("file", result.file.path) \o title
             \o <<Tok("text", IF "description" \in documentation.has
                                THEN "D" ELSE "undefined")>>
        ELSE Spell("href", <<docFileName.stem, docFileName.ext>>) \o title
             \o Spell("fileName", result.file.base)
             \o <<IF "description" \in documentation.has
                    THEN Tok("text", "D") ELSE NoDescription>>

\* createIndexFile: one entry per result, in input order
IndexContent(format, docResults) ==
  Concat([k \in 1..Len(docResults) |-> IndexEntry(format, docResults[k])])

\* fs.writeFile: a later write to the same name replaces the earlier file
WriteFile(dir, name, owner, content) ==
  {a \in dir : a.name # name} \cup {[name |-> name, owner |-> owner, content |-> content]}

\* a DocumentationResult's source file: path.basename, path.extname and the
\* base name without extension are carried as fields
SourceFile(dir, stem, ext) ==
  [path |-> <<dir, stem, ext>>, base |-> <<stem, ext>>, stem |-> stem, ext |-> ext]

\* getLanguageFromExtension, for the extensions of the source files used here
LanguageOfExt(ext) ==
  CASE ext = ".js" -> "javascript"
    [] ext = ".ts" -> "typescript"
    [] ext = ".py" -> "python"
    [] OTHER -> "go"

\* a Documentation: the optional fields present, the words of the title (none
\* when the title is absent) and the lists
Doc(has, functions, classes, exports) ==
  [has |-> has, title |-> IF "title" \in has THEN <<"T">> ELSE <<>>,
   functions |-> functions, classes |-> classes, exports |-> exports]

Titled(documentation, title) == [documentation EXCEPT !.title = title]

DocResult(file, documentation) ==
  [file |-> file, language |-> LanguageOfExt(file.ext), documentation |-> documentation]

FullFunc(name, returnsType) == FuncProse(name, FuncFields, returnsType)

ClassProse(name, methods) == [name |-> name, methods |-> methods]

ExportProse(name) == [name |-> name]

\* every subset of the optional prose fields, on a file with one function
ProseDocs ==
  {Doc(h \cup {"title", "functions"}, <<FuncProse("f", fh, "string")>>, <<>>, <<>>) :
     h \in SUBSET {"description", "usage", "notes"}, fh \in SUBSET FuncFields}

\* the shapes of the lists: absent, empty, several functions, classes, exports
ShapeDocs ==
  {Doc({"description", "functions"}, fs, <<>>, <<>>) :
     fs \in SeqsUpTo({FullFunc("f", t) : t \in ReturnTypes}
                     \cup {FuncProse("g", {"description"}, "any")}, MaxFuncs)}
  \cup {Doc(h, <<>>, cs, es) :
          h \in {{}, {"title", "description", "classes", "exports"}},
          cs \in {<<>>, <<ClassProse("K", <<FullFunc("m", "void")>>)>>,
                  <<ClassProse("K", <<FuncProse("m", {"description"}, "any")>>)>>},
          es \in {<<>>, <<ExportProse("e")>>}}

\* prose whose title is spelled like a marker of the template, or like a
\* replacement pattern
MarkerDocs ==
  {Titled(Doc({"title", "description", "notes", "functions"},
              <<FullFunc("f", "string")>>, <<>>, <<>>), <<word>>) :
     word \in {Marker("NOTES"), Marker("TITLE"), MatchPattern}}

DocSpace == ProseDocs \cup ShapeDocs \cup MarkerDocs

\* a few documents for the runs that vary the template or the batch
PlainDoc == Doc({"title", "description", "functions"}, <<FullFunc("f", "string")>>, <<>>, <<>>)

BareDoc == Doc({}, <<>>, <<>>, <<>>)

NoReturnsDoc == Doc({"title", "functions"}, <<FuncProse("f", {"description"}, "any")>>, <<>>, <<>>)

\* a document with every list filled
ListsDoc ==
  Doc({"title", "functions", "classes", "exports"},
      <<FullFunc("f", "string"), FullFunc("g", "void")>>,
      <<ClassProse("K", <<FullFunc("m", "void")>>)>>, <<ExportProse("e")>>)

AppJs == SourceFile("src", "app", ".js")

RenderSourceFiles == {AppJs, SourceFile("lib", "app", ".py"), SourceFile("src", "index", ".js")}

BatchResults ==
  {rs \in SeqsUpTo({DocResult(f, d) : f \in RenderSourceFiles,
                                      d \in {PlainDoc, BareDoc, NoReturnsDoc, ListsDoc}},
                   MaxResults) :
     /\ Len(rs) > 0
     /\ \A i, j \in 1..Len(rs) : i # j => rs[i].file # rs[j].file}

\* one call of generateDocumentation on a batch of results
InitRender ==
  /\ renResults \in BatchResults
  /\ renFormat \in SupportedFormats \cup {"pdf"}
  /\ renTemplate \in {getDefaultHTMLTemplate, ShippedTemplate}
  /\ renPc = "start"
  /\ renIdx = 0
  /\ artifacts = {}
  /\ renError = "none"
  /\ GenIdle
  /\ ParIdle
  /\ WatIdle

\* one call of generateDocumentation on a single result: every document with
\* the two shipped templates, and a few documents with every template
InitRenderFile ==
  /\ \/ /\ renResults \in {<<DocResult(AppJs, d)>> : d \in DocSpace}
        /\ renFormat \in SupportedFormats
        /\ renTemplate \in {getDefaultHTMLTemplate, ShippedTemplate}
     \/ /\ renResults \in {<<DocResult(AppJs, d)>> : d \in {PlainDoc, BareDoc, NoReturnsDoc}}
        /\ renFormat \in SupportedFormats \cup {"pdf"}
        /\ renTemplate \in Templates
  /\ renPc = "start"
  /\ renIdx = 0
  /\ artifacts = {}
  /\ renError = "none"
  /\ GenIdle
  /\ ParIdle
  /\ WatIdle

\* generateDocumentation lines 13-29: mkdir, then the switch on options.format
RenderStart ==
  /\ renPc = "start"
  /\ IF renFormat \in SupportedFormats
       THEN renPc' = "files" /\ renIdx' = 1 /\ UNCHANGED renError
       ELSE renPc' = "threw-format" /\ renError' = "Unsupported output format"
                                     /\ UNCHANGED renIdx
  /\ UNCHANGED <<renFormat, renResults, renTemplate, artifacts>>
  /\ UNCHANGED notRen

\* generateHTML / generateJSON: one iteration of `for (const result of results)`;
\* nothing catches a throw of the renderer or a rejection of fs.writeFile
RenderNextFile ==
  /\ renPc = "files"
  /\ renIdx <= Len(renResults)
  /\ LET result == renResults[renIdx]
         rendered == RenderFile(renFormat, result, renTemplate)
     IN IF ~rendered.ok
          THEN /\ renPc' = "threw-files"
               /\ renError' = rendered.error
               /\ UNCHANGED <<renIdx, artifacts>>
          ELSE \/ /\ artifacts' = WriteFile(artifacts, getOutputFileName(result.file, renFormat),
                                            result.file.path, rendered.text)
                  /\ renIdx' = renIdx + 1
                  /\ UNCHANGED <<renPc, renError>>
               \/ /\ renPc' = "threw-files"
                  /\ renError' = "EIO"
                  /\ UNCHANGED <<renIdx, artifacts>>
  /\ UNCHANGED <<renFormat, renResults, renTemplate>>
  /\ UNCHANGED notRen

\* createIndexFile, called after the loop
CreateIndex ==
  /\ renPc = "files"
  /\ renIdx > Len(renResults)
  /\ \/ /\ artifacts' = WriteFile(artifacts, IndexName(renFormat), <<"index">>,
                                  IndexContent(renFormat, renResults))
        /\ renPc' = IF renFormat = "json" THEN "combined" ELSE "done"
        /\ UNCHANGED renError
     \/ /\ renPc' = "threw-index"
        /\ renError' = "EIO"
        /\ UNCHANGED artifacts
  /\ UNCHANGED <<renFormat, renResults, renTemplate, renIdx>>
  /\ UNCHANGED notRen

\* documentation.functions?.length || 0
CountOf(documentation, field) ==
  IF field \in documentation.has THEN Len(documentation[field]) ELSE 0

\* results.reduce((sum, result) => sum + (... || 0), 0)
RECURSIVE TotalOf(_, _)
TotalOf(docResults, field) ==
  IF docResults = <<>>
    THEN 0
    ELSE CountOf(Head(docResults).documentation, field) + TotalOf(Tail(docResults), field)

\* [...new Set(results.map(result => result.parsedCode.language))]: each
\* grammar once, in the order of its first result
Languages(docResults) ==
  LET firsts == SelectSeq([k \in 1..Len(docResults) |-> k],
                          LAMBDA k : \A j \in 1..(k - 1) :
                                       docResults[j].language # docResults[k].language)
  IN [n \in 1..Len(firsts) |-> Tok("languages", docResults[firsts[n]].language)]

\* the result whose entry a key would hold if the first assignment were kept
KeyFirstOwner(docResults, stem) ==
  CHOOSE k \in 1..Len(docResults) :
    /\ docResults[k].file.stem = stem
    /\ \A j \in 1..Len(docResults) : docResults[j].file.stem = stem => k <= j

\* acc[fileName] = {...}: the entry of a key is that of the last result whose
\* base name without extension is the key
KeyOwner(docResults, stem) ==
  CHOOSE k \in 1..Len(docResults) :
    /\ docResults[k].file.stem = stem
    /\ \A j \in 1..Len(docResults) : docResults[j].file.stem = stem => j <= k

\* one value of the documentation object
CombinedEntry(result) ==
  Spell("file", result.file.path)
  \o <<Tok("language", result.language),
       Tok("documentation", IF "title" \in result.documentation.has THEN "T" ELSE "undefined"),
       Tok("functions", ToString(CountOf(result.documentation, "functions")))>>

\* generateCombinedJSON (json.ts lines 63-106): summary, files, and the
\* documentation object whose keys appear in the order of their first assignment
CombinedContent(docResults) ==
  LET firsts == SelectSeq([k \in 1..Len(docResults) |-> k],
                          LAMBDA k : \A j \in 1..(k - 1) :
                                       docResults[j].file.stem # docResults[k].file.stem)
  IN <<Tok("totalFiles", ToString(Len(docResults))),
       Tok("totalFunctions", ToString(TotalOf(docResults, "functions"))),
       Tok("totalClasses", ToString(TotalOf(docResults, "classes"))),
       Tok("totalExports", ToString(TotalOf(docResults, "exports")))>>
     \o Languages(docResults)
     \o Concat([k \in 1..Len(docResults) |-> Spell("files", docResults[k].file.path)])
     \o Concat([n \in 1..Len(firsts) |->
          <<Tok("key", docResults[firsts[n]].file.stem)>>
          \o CombinedEntry(docResults[KeyOwner(docResults, docResults[firsts[n]].file.stem)])])

GenerateCombinedJSON ==
  /\ renPc = "combined"
  /\ \/ /\ artifacts' = WriteFile(artifacts, CombinedName, <<"combined">>,
                                  CombinedContent(renResults))
        /\ renPc' = "done"
        /\ UNCHANGED renError
     \/ /\ renPc' = "threw-combined"
        /\ renError' = "EIO"
        /\ UNCHANGED artifacts
  /\ UNCHANGED <<renFormat, renResults, renTemplate, renIdx>>
  /\ UNCHANGED notRen

NextRender ==
  \/ RenderStart
  \/ RenderNextFile
  \/ CreateIndex
  \/ GenerateCombinedJSON

SpecRender == InitRender /\ [][NextRender]_vars

SpecRenderFile == InitRenderFile /\ [][NextRender]_vars

(***************************************************************************)
(* Properties of the documentation generators.                             *)
(***************************************************************************)
\* the result at position k has been through its iteration of the loop
FileRendered(k) ==
  \/ renPc = "threw-files" /\ renIdx = k
  \/ renPc \in {"files", "combined", "done", "threw-index", "threw-combined"} /\ renIdx > k

RenderEnded == renPc \in {"done", "threw-files", "threw-index", "threw-combined"}

ArtifactOf(file) == {a \in artifacts : a.owner = file.path}

\* no other result of the batch, nor the index, is written under the same name
OwnName(k) ==
  /\ renResults[k].file.stem # "index"
  /\ \A j \in 1..Len(renResults) :
       j # k => renResults[j].file.stem # renResults[k].file.stem

\* C2 as stated: when rendering or writing one result's artifact fails, the
\* artifacts of every other result and the index artifact are still written
C2_BatchSurvives ==
  (RenderEnded /\ renFormat \in {"html", "json"} /\ Len(renResults) >= 2) =>
     /\ \A k \in 1..Len(renResults) :
          (OwnName(k) /\ ~(renPc = "threw-files" /\ renIdx = k)) =>
             ArtifactOf(renResults[k].file) # {}
     /\ renPc # "threw-index" =>
          \E a \in artifacts : a.name = IndexName(renFormat) /\ a.owner = <<"index">>

\* C4 as stated: with a template that lacks a slot marker the hypertext
\* renderer fails with a TemplateError (no artifact with the section left out),
\* and the other two renderers succeed on the same Documentation
C4_TemplateError ==
  (FileRendered(1) /\ MissingSlots(renTemplate) # {} /\ renError \notin {"EIO", "TypeError"}) =>
     /\ renFormat = "html" => renError = "TemplateError" /\ ArtifactOf(AppJs) = {}
     /\ renFormat \in {"markdown", "json"} => renError = "none" /\ ArtifactOf(AppJs) # {}

\* C5 as stated: whatever optional prose fields are absent, rendering returns an
\* artifact without throwing, and an absent file description is rendered as
\* the fixed placeholder
C5_ProseTolerated ==
  (FileRendered(1) /\ renFormat = "html"
     /\ MissingSlots(renTemplate) = {} /\ renError # "EIO") =>
     /\ renError = "none"
     /\ "description" \notin renResults[1].documentation.has =>
          \E a \in ArtifactOf(AppJs) : NoDescription \in Range(a.content)

(***************************************************************************)
(* Source text.                                                            *)
(*                                                                         *)
(* Strings that the code inspects character by character (extensions,      *)
(* identifiers, receivers, braces) are sequences of one-character strings. *)
(* A line of text is described by what the extractors' regular expressions *)
(* see in it:                                                              *)
(*   kind    which pattern the trimmed line matches                        *)
(*             Python: "def", "class", "import", "from", "all"             *)
(*             Go:     "func", "struct", "import1" (import "p"),           *)
(*                     "importopen" (import ( ), "close" ( ) ),            *)
(*                     "quoted" ("p")                                      *)
(*             "other" (none of them), "blank" (trim() is empty)           *)
(*   indent  number of leading white-space characters                      *)
(*   name    the identifier captured by the pattern                        *)
(*   recv    Go: the text between the parentheses of the receiver          *)
(*   braces  the '{' and '}' characters of the line, in order              *)
(*   params  the parameters written between the parentheses of a def or    *)
(*           func line: [name, type, default], "" for a part not written   *)
(*   returns the return type written after the parameters, "" for none     *)
(***************************************************************************)
Lower == <<"a", "b", "f", "g", "j", "o", "p", "r", "s", "t", "x", "y">>

Upper == <<"A", "B", "F", "G", "J", "O", "P", "R", "S", "T", "X", "Y">>

toLowerCaseChar(c) ==
  IF \E k \in 1..Len(Upper) : Upper[k] = c
    THEN Lower[CHOOSE k \in 1..Len(Upper) : Upper[k] = c]
    ELSE c

toUpperCaseChar(c) ==
  IF \E k \in 1..Len(Lower) : Lower[k] = c
    THEN Upper[CHOOSE k \in 1..Len(Lower) : Lower[k] = c]
    ELSE c

toLowerCase(str) == [k \in 1..Len(str) |-> toLowerCaseChar(str[k])]

\* pattern occurs somewhere in str
\* a variant that accepts the whole string only
IsWholeString(pattern, str) == pattern = str

IsSubstring(pattern, str) ==
  \E k \in 0..(Len(str) - Len(pattern)) : SubSeq(str, k + 1, k + Len(pattern)) = pattern

Line(kind, indent, name, recv, braces) ==
  [kind |-> kind, indent |-> indent, name |-> name, recv |-> recv, braces |-> braces,
   params |-> <<>>, returns |-> ""]

\* a def or func line with its parameter list and return type
Signed(line, params, returns) == [line EXCEPT !.params = params, !.returns = returns]

\* one parameter as written in the text
Param(name, type, default) == [name |-> name, type |-> type, default |-> default]

BlankLine == Line("blank", 0, <<>>, <<>>, <<>>)

\* lines[i] of the code, whose indices start at 0
At(lines, i) == lines[i + 1]

\* the indices i of the lines that satisfy Matches, in increasing order
MatchingIndices(lines, Matches(_)) ==
  SelectSeq([k \in 1..Len(lines) |-> k - 1], LAMBDA i : Matches(At(lines, i)))

Min(S) == CHOOSE x \in S : \A y \in S : x <= y

\* classLines.join('\n').split('\n'): an empty list becomes one empty line
JoinSplit(lines) == IF lines = <<>> THEN <<BlankLine>> ELSE lines

\* Array.prototype.slice(from, to) with 0 <= from
Slice(lines, from, to) == SubSeq(lines, from + 1, to)

\* keys: the keys of the object literal; a key outside it is absent (undefined)
SymbolInfo(name, startLine, endLine, methods) ==
  [name |-> name, startLine |-> startLine, endLine |-> endLine, methods |-> methods,
   parameters |-> <<>>, returnType |-> "", keys |-> {}]

\* the keys of the FunctionInfo literals of the line-based extractors
\* (python.ts lines 105-114, index.ts lines 453-462 and 668-677)
FunctionInfoKeys ==
  {"name", "parameters", "returnType", "isAsync", "isGenerator", "comments",
   "startLine", "endLine"}

\* the keys of the ClassInfo literals (python.ts lines 135-144)
ClassInfoKeys ==
  {"name", "methods", "properties", "constructor", "superClass", "comments",
   "startLine", "endLine"}

FunctionInfo(name, parameters, returnType, startLine, endLine) ==
  [SymbolInfo(name, startLine, endLine, <<>>) EXCEPT
     !.parameters = parameters, !.returnType = returnType, !.keys = FunctionInfoKeys]

ClassInfo(name, startLine, endLine, methods) ==
  [SymbolInfo(name, startLine, endLine, methods) EXCEPT !.keys = ClassInfoKeys]

\* a parameter of a FunctionInfo
ParameterInfo(name, type, defaultValue, keys) ==
  [name |-> name, type |-> type, defaultValue |-> defaultValue, keys |-> keys]

EdgeInfo(name, type, startLine) == [name |-> name, type |-> type, startLine |-> startLine]

\* the four lists of a ParsedCodeFile
ListsOf(module) ==
  [functions |-> module.functions, classes |-> module.classes,
   imports |-> module.imports, exports |-> module.exports]

ParsedCodeFile(language, functions, classes, imports, exports) ==
  [language |-> language, functions |-> functions, classes |-> classes,
   imports |-> imports, exports |-> exports]

(***************************************************************************)
(* The Python extractor (src/src/core/parsers/python.ts).                   *)
(***************************************************************************)
\* a variant that takes every line to start at the margin
noIndentation(line) == 0

\* the length of the leading white space
getIndentation(line) == line.indent

\* a variant that answers the index of the definition line itself
findFunctionEndAtStart(lines, startIndex) == startIndex

\* index of the first non-blank line after startIndex that is indented no
\* deeper than lines[startIndex]; lines.length when there is none
findFunctionEnd(lines, startIndex) ==
  LET startIndentation == getIndentation(At(lines, startIndex))
      stops == {i \in (startIndex + 1)..(Len(lines) - 1) :
                  /\ At(lines, i).kind # "blank"
                  /\ getIndentation(At(lines, i)) <= startIndentation}
  IN  IF stops = {} THEN Len(lines) ELSE Min(stops)

findClassEnd(lines, startIndex) == findFunctionEnd(lines, startIndex)

extractClassContent(lines, classStartIndex) ==
  Slice(lines, classStartIndex + 1, findClassEnd(lines, classStartIndex))

\* /^import\s+([^\s#]+)/ also matches the Go lines import "p" and import (
PythonImportKinds == {"import", "import1", "importopen"}

parsePythonImports(lines) ==
  LET found == MatchingIndices(lines, LAMBDA l : l.kind \in PythonImportKinds \cup {"from"})
  IN  [k \in 1..Len(found) |->
         EdgeInfo(At(lines, found[k]).name,
                  IF At(lines, found[k]).kind = "from" THEN "named" ELSE "default",
                  found[k] + 1)]

\* text.split(','): the pieces of a written type between its commas
SplitAtCommas(text) ==
  IF text = "Dict[str,int]" THEN <<"Dict[str", "int]">> ELSE <<text>>

\* the words of one parameter as it is written: name, ':' type, '=' default
WrittenParameter(param) ==
  LET pieces == SplitAtCommas(param.type)
  IN  <<param.name>>
      \o (IF param.type = "" THEN <<>>
            ELSE <<":">> \o Concat([k \in 1..Len(pieces) |->
                                      IF k = 1 THEN <<pieces[k]>> ELSE <<",", pieces[k]>>]))
      \o (IF param.default = "" THEN <<>> ELSE <<"=", param.default>>)

\* the text between the parentheses of a def line, word by word
ParamString(params) ==
  Concat([k \in 1..Len(params) |->
            IF k = 1 THEN WrittenParameter(params[k])
                     ELSE <<",">> \o WrittenParameter(params[k])])

\* paramString.split(sep), on words
RECURSIVE SplitWords(_, _)
SplitWords(words, sep) ==
  LET at == {k \in 1..Len(words) : words[k] = sep}
  IN  IF at = {} THEN <<words>>
      ELSE <<SubSeq(words, 1, Min(at) - 1)>>
           \o SplitWords(SubSeq(words, Min(at) + 1, Len(words)), sep)

RECURSIVE JoinWords(_)
JoinWords(words) == IF words = <<>> THEN "" ELSE Head(words) \o JoinWords(Tail(words))

\* /^([^sep]+)sep(.+)$/ : the first sep with text on both sides, 0 for no match
MatchAt(words, sep) ==
  LET at == {k \in 1..Len(words) : words[k] = sep}
  IN  IF at # {} /\ 1 < Min(at) /\ Min(at) < Len(words) THEN Min(at) ELSE 0

\* the object parseParameters returns for one piece of the split
parseParameter(param) ==
  LET eq == MatchAt(param, "=")
      paramPart == IF eq = 0 THEN param ELSE SubSeq(param, 1, eq - 1)
      defaultValue == IF eq = 0 THEN "" ELSE JoinWords(SubSeq(param, eq + 1, Len(param)))
      colon == MatchAt(paramPart, ":")
  IN  ParameterInfo(IF colon = 0 THEN JoinWords(paramPart)
                                 ELSE JoinWords(SubSeq(paramPart, 1, colon - 1)),
                    IF colon = 0 THEN "Any"
                                 ELSE JoinWords(SubSeq(paramPart, colon + 1, Len(paramPart))),
                    defaultValue,
                    IF eq = 0 THEN {"name", "type"} ELSE {"name", "type", "defaultValue"})

\* parseParameters: split at the commas, then one object per piece
parseParameters(paramString) ==
  IF paramString = <<>>
    THEN <<>>
    ELSE LET params == SplitWords(paramString, ",")
         IN  [k \in 1..Len(params) |-> parseParameter(params[k])]

\* a variant that takes the def lines at the margin only
parseModuleLevelFunctions(lines) ==
  LET found == MatchingIndices(lines, LAMBDA l : l.kind = "def" /\ getIndentation(l) = 0)
  IN  [k \in 1..Len(found) |->
         FunctionInfo(At(lines, found[k]).name,
                      parseParameters(ParamString(At(lines, found[k]).params)),
                      IF At(lines, found[k]).returns = "" THEN "Any"
                                                          ELSE At(lines, found[k]).returns,
                      found[k] + 1, findFunctionEnd(lines, found[k]))]

\* one FunctionInfo per line that matches the def pattern once trimmed
parsePythonFunctions(lines) ==
  LET found == MatchingIndices(lines, LAMBDA l : l.kind = "def")
  IN  [k \in 1..Len(found) |->
         FunctionInfo(At(lines, found[k]).name,
                      parseParameters(ParamString(At(lines, found[k]).params)),
                      IF At(lines, found[k]).returns = "" THEN "Any"
                                                          ELSE At(lines, found[k]).returns,
                      found[k] + 1, findFunctionEnd(lines, found[k]))]

\* a variant that leaves the line numbers relative to the class body
parseMethodsUnadjusted(classLines, baseLineNumber) ==
  parsePythonFunctions(JoinSplit(classLines))

parsePythonMethods(classLines, baseLineNumber) ==
  LET methods == parsePythonFunctions(JoinSplit(classLines))
  IN  [k \in 1..Len(methods) |->
         [methods[k] EXCEPT !.startLine = @ + baseLineNumber,
                            !.endLine = @ + baseLineNumber]]

parsePythonClasses(lines) ==
  LET found == MatchingIndices(lines, LAMBDA l : l.kind = "class")
  IN  [k \in 1..Len(found) |->
         ClassInfo(At(lines, found[k]).name, found[k] + 1,
                    findClassEnd(lines, found[k]),
                    parsePythonMethods(extractClassContent(lines, found[k]),
                                       found[k] + 1))]

\* one entry per name of an __all__ = [...] line
parsePythonExports(lines) ==
  LET found == MatchingIndices(lines, LAMBDA l : l.kind = "all")
  IN  [k \in 1..Len(found) |-> EdgeInfo(At(lines, found[k]).name, "named", found[k] + 1)]

\* result = { ...baseResult }; each of the four lists is then assigned anew
parsePython(content, base) ==
  ParsedCodeFile("python", parsePythonFunctions(content.lines),
                 parsePythonClasses(content.lines),
                 parsePythonImports(content.lines),
                 parsePythonExports(content.lines))

(***************************************************************************)
(* The Go extractor (src/src/core/parsers/index.ts, lines 345-682).        *)
(***************************************************************************)
\* the scan of findGoFunctionEnd, at character k of lines[i]
RECURSIVE ScanBraces(_, _, _, _, _)
ScanBraces(lines, i, k, braceCount, foundOpenBrace) ==
  IF i >= Len(lines) THEN Len(lines)
  ELSE IF k > Len(At(lines, i).braces)
    THEN ScanBraces(lines, i + 1, 1, braceCount, foundOpenBrace)
  ELSE IF At(lines, i).braces[k] = "{"
    THEN ScanBraces(lines, i, k + 1, braceCount + 1, TRUE)
  ELSE IF foundOpenBrace /\ braceCount - 1 = 0
    THEN i + 1
  ELSE ScanBraces(lines, i, k + 1, braceCount - 1, foundOpenBrace)

\* a variant that stops at the first closing brace, whatever the depth
findFirstClosingBrace(lines, startIndex) ==
  LET closing == {i \in startIndex..(Len(lines) - 1) : "}" \in Range(At(lines, i).braces)}
  IN  IF closing = {} THEN Len(lines) ELSE Min(closing) + 1

findGoFunctionEnd(lines, startIndex) == ScanBraces(lines, startIndex, 1, 0, FALSE)

findGoStructEnd(lines, startIndex) == findGoFunctionEnd(lines, startIndex)

\* lines.forEach of parseGoImports from line index on
RECURSIVE GoImportsFrom(_, _, _, _, _)
GoImportsFrom(lines, index, inImportBlock, importBlockStart, imports) ==
  IF index >= Len(lines) THEN imports
  ELSE LET line == At(lines, index)
       IN  IF line.kind = "import1"
             THEN GoImportsFrom(lines, index + 1, inImportBlock, importBlockStart,
                                Append(imports, EdgeInfo(line.name, "default", index + 1)))
           ELSE IF line.kind = "importopen"
             THEN GoImportsFrom(lines, index + 1, TRUE, index + 1, imports)
           ELSE IF inImportBlock /\ line.kind = "close"
             THEN GoImportsFrom(lines, index + 1, FALSE, importBlockStart, imports)
           ELSE IF inImportBlock /\ line.kind = "quoted"
             THEN GoImportsFrom(lines, index + 1, inImportBlock, importBlockStart,
                                Append(imports,
                                       EdgeInfo(line.name, "default", importBlockStart)))
           ELSE GoImportsFrom(lines, index + 1, inImportBlock, importBlockStart, imports)

parseGoImports(lines) == GoImportsFrom(lines, 0, FALSE, -1, <<>>)

\* parseGoParameters: 'name type', or 'type' alone for an unnamed parameter
parseGoParameters(params) ==
  [k \in 1..Len(params) |->
     ParameterInfo(IF params[k].name = "" THEN "_" ELSE params[k].name,
                   params[k].type, "", {"name", "type"})]

\* parseGoReturnType: 'void' for no return type
parseGoReturnType(returnString) == IF returnString = "" THEN "void" ELSE returnString

\* /^func(?:\s+\([^)]*\))?\s+name\s*\(/ : with or without a receiver
parseGoFunctions(lines) ==
  LET found == MatchingIndices(lines, LAMBDA l : l.kind = "func")
  IN  [k \in 1..Len(found) |->
         FunctionInfo(At(lines, found[k]).name,
                      parseGoParameters(At(lines, found[k]).params),
                      parseGoReturnType(At(lines, found[k]).returns),
                      found[k] + 1, findGoFunctionEnd(lines, found[k]))]

\* the receiver pattern \([^)]*\*?${structName}[^)]*\)
findGoStructMethods(lines, structName) ==
  LET found == MatchingIndices(lines,
                 LAMBDA l : l.kind = "func" /\ IsSubstring(structName, l.recv))
  IN  [k \in 1..Len(found) |->
         FunctionInfo(At(lines, found[k]).name,
                      parseGoParameters(At(lines, found[k]).params),
                      parseGoReturnType(At(lines, found[k]).returns),
                      found[k] + 1, findGoFunctionEnd(lines, found[k]))]

parseGoStructs(lines) ==
  LET found == MatchingIndices(lines, LAMBDA l : l.kind = "struct")
  IN  [k \in 1..Len(found) |->
         ClassInfo(At(lines, found[k]).name, found[k] + 1,
                    findGoStructEnd(lines, found[k]),
                    findGoStructMethods(lines, At(lines, found[k]).name))]

\* name[0] === name[0].toUpperCase()
IsExportedName(name) == name[1] = toUpperCaseChar(name[1])

ExportsOf(symbols, type) ==
  LET exported == SelectSeq(symbols, LAMBDA sym : IsExportedName(sym.name))
  IN  [k \in 1..Len(exported) |-> EdgeInfo(exported[k].name, type, exported[k].startLine)]

parseGoExports(functions, structs) ==
  ExportsOf(functions, "function") \o ExportsOf(structs, "struct")

\* result = { ...baseResult }; each of the four lists is then assigned anew
parseGo(content, base) ==
  LET functions == parseGoFunctions(content.lines)
      structs == parseGoStructs(content.lines)
  IN  ParsedCodeFile("go", functions, structs, parseGoImports(content.lines),
                     parseGoExports(functions, structs))

(***************************************************************************)
(* The JavaScript and TypeScript extractors (src/src/core/parsers/         *)
(* javascript.ts, index.ts lines 71-289).  @babel/parser is a library: its *)
(* result is described by whether it accepts the text under the plugin set *)
(* in use and by the nodes that traverse visits, in visiting order.  A     *)
(* node is [type, hasId, isFunction, loc]; loc is <<>> or <<[start, end]>> *)
(* with 1 <= start <= end, as the parser produces it.  The classes of      *)
(* these trees have empty bodies.                                          *)
(***************************************************************************)
Node(type, hasId, isFunction, loc) ==
  [type |-> type, hasId |-> hasId, isFunction |-> isFunction, loc |-> loc,
   declaration |-> "none"]

\* an export declaration: what node.declaration is ("function", "variable",
\* "class"), or "specifiers" for export { a }
Exporting(node, declaration) == [node EXCEPT !.declaration = declaration]

\* node.loc?.start.line || 0
StartLineOf(node) == IF node.loc = <<>> THEN 0 ELSE node.loc[1].start

\* node.loc?.end.line || 0
EndLineOf(node) == IF node.loc = <<>> THEN 0 ELSE node.loc[1].end

NodeName == <<"f">>

\* the FunctionDeclaration and VariableDeclarator visitors
VisitedFunctions(ast) ==
  LET kept == SelectSeq(ast, LAMBDA n :
                \/ n.type = "FunctionDeclaration" /\ n.hasId
                \/ n.type = "VariableDeclarator" /\ n.hasId /\ n.isFunction)
  IN  [k \in 1..Len(kept) |->
         FunctionInfo(NodeName, <<>>, "any", StartLineOf(kept[k]), EndLineOf(kept[k]))]

\* the ClassDeclaration visitor
VisitedClasses(ast) ==
  LET kept == SelectSeq(ast, LAMBDA n : n.type = "ClassDeclaration" /\ n.hasId)
  IN  [k \in 1..Len(kept) |->
         ClassInfo(NodeName, StartLineOf(kept[k]), EndLineOf(kept[k]), <<>>)]

\* the ImportDeclaration visitor of parseJavaScript
VisitedImports(ast) ==
  LET kept == SelectSeq(ast, LAMBDA n : n.type = "ImportDeclaration")
  IN  [k \in 1..Len(kept) |-> EdgeInfo(<<"m">>, "import", StartLineOf(kept[k]))]

\* the ExportNamedDeclaration and ExportDefaultDeclaration visitors of
\* parseJavaScript: a named export of a class declaration pushes nothing
VisitedExports(ast) ==
  LET kept == SelectSeq(ast, LAMBDA n :
                \/ n.type = "ExportDefaultDeclaration"
                \/ /\ n.type = "ExportNamedDeclaration"
                   /\ \/ n.declaration = "function" /\ n.hasId
                      \/ n.declaration \in {"variable", "specifiers"})
  IN  [k \in 1..Len(kept) |->
         EdgeInfo(IF \/ kept[k].type = "ExportNamedDeclaration"
                     \/ kept[k].declaration \in {"function", "class"} /\ kept[k].hasId
                    THEN NodeName ELSE <<"default">>,
                  CASE kept[k].type = "ExportDefaultDeclaration" -> "default"
                    [] kept[k].declaration = "specifiers" -> "named"
                    [] OTHER -> kept[k].declaration,
                  StartLineOf(kept[k]))]

\* the visitors of each dialect: parseTypeScript has none for import and
\* export declarations (its exports come from type aliases and interfaces,
\* which these trees do not hold)
\* const result = { ...baseResult }, then the visitors push to result.functions,
\* result.classes, result.imports and result.exports
traverse(language, ast, base) ==
  ParsedCodeFile(language, base.functions \o VisitedFunctions(ast),
                 base.classes \o VisitedClasses(ast),
                 base.imports \o (IF language = "javascript" THEN VisitedImports(ast) ELSE <<>>),
                 base.exports \o (IF language = "javascript" THEN VisitedExports(ast) ELSE <<>>))

\* parse(content, {plugins}): TypeScript syntax needs the 'typescript' plugin
BabelAccepts(content, typescriptPlugin) ==
  \/ content.looks \in {"javascript", "blank"}
  \/ content.looks = "typescript" /\ typescriptPlugin

\* error.message of the SyntaxError thrown by parse
BabelMessage(content) == <<"Unexpected token", content.looks>>

Failure(kind, detail) == [kind |-> kind, detail |-> detail]

\* an extractor call: [threw, module, error]
Extracted(module) == [threw |-> FALSE, module |-> <<module>>, error |-> NoError]

ExtractFailed(error) == [threw |-> TRUE, module |-> <<>>, error |-> error]

parseJavaScript(content, base) ==
  IF BabelAccepts(content, FALSE)
    THEN Extracted(traverse("javascript", content.ast, base))
    ELSE ExtractFailed(Failure("Failed to parse JavaScript: ", BabelMessage(content)))

parseTypeScript(content, base) ==
  IF BabelAccepts(content, TRUE)
    THEN Extracted(traverse("typescript", content.ast, base))
    ELSE ExtractFailed(Failure("Failed to parse TypeScript: ", BabelMessage(content)))

\* cli: the symbol lists of a ParsedFile are not modelled, only how it was made
ParsedFile(language, via) ==
  [language |-> language, via |-> via, functions |-> <<>>, classes |-> <<>>,
   imports |-> <<>>, exports |-> <<>>]

extractWithRegex(content, language) == ParsedFile(language, "extractWithRegex")

\* cli parseJSLike: the catch block answers with extractWithRegex
parseJSLike(content, language) ==
  IF BabelAccepts(content, TRUE)
    THEN Extracted(ParsedFile(language, "parseJSLike"))
    ELSE Extracted(extractWithRegex(content, language))

(***************************************************************************)
(* parseCode (core) and parseFile (cli) on one file.                       *)
(***************************************************************************)
Ext(chars) == <<".">> \o chars

\* the keys of extensionMap
SupportedExtensions ==
  {Ext(<<"j", "s">>), Ext(<<"j", "s", "x">>), Ext(<<"t", "s">>),
   Ext(<<"t", "s", "x">>), Ext(<<"p", "y">>), Ext(<<"g", "o">>)}

\* a variant that knows no unsupported extension
getLanguageOrJavaScript(ext) ==
  CASE ext \in {Ext(<<"t", "s">>), Ext(<<"t", "s", "x">>)} -> "typescript"
    [] ext = Ext(<<"p", "y">>)                             -> "python"
    [] ext = Ext(<<"g", "o">>)                             -> "go"
    [] OTHER                                               -> "javascript"

\* extensionMap[ext] || null, "none" standing for null
getLanguageFromExtension(ext) ==
  CASE ext \in {Ext(<<"j", "s">>), Ext(<<"j", "s", "x">>)} -> "javascript"
    [] ext \in {Ext(<<"t", "s">>), Ext(<<"t", "s", "x">>)} -> "typescript"
    [] ext = Ext(<<"p", "y">>)                             -> "python"
    [] ext = Ext(<<"g", "o">>)                             -> "go"
    [] OTHER                                               -> "none"

\* every way of writing ext in upper and lower case
CaseVariants(ext) ==
  {[k \in 1..Len(ext) |-> IF k \in U THEN toUpperCaseChar(ext[k]) ELSE ext[k]] :
     U \in SUBSET (1..Len(ext))}

\* extensions that extensionMap does not have, and no extension at all
OtherExtensions ==
  {<<>>, Ext(<<"r", "b">>), Ext(<<"R", "B">>), Ext(<<"j">>), Ext(<<"p", "y", "x">>),
   Ext(<<"j", "s", "o">>), Ext(<<"g", "o", "t">>)}

Extensions == UNION {CaseVariants(e) : e \in SupportedExtensions} \cup OtherExtensions

\* path.extname(filePath)
extname(file) == file.ext

Content(looks, lines, ast) == [looks |-> looks, lines |-> lines, ast |-> ast]

Loc(start, end) == <<[start |-> start, end |-> end]>>

Foo == <<"F", "o", "o">>

bar == <<"b", "a", "r">>

\* an identifier that starts with an underscore
underscored == <<"_", "f">>

Other(indent, braces) == Line("other", indent, <<>>, <<>>, braces)

\* one text of each kind, for the dispatch
JsLines == <<Other(0, <<"{">>), Other(0, <<"}">>)>>

SampleContents ==
  {Content("javascript", JsLines,
           <<Node("FunctionDeclaration", TRUE, TRUE, Loc(1, 2))>>),
   Content("typescript", JsLines,
           <<Node("FunctionDeclaration", TRUE, TRUE, Loc(1, 2))>>),
   Content("python", <<Line("def", 0, <<"f">>, <<>>, <<>>), Other(1, <<>>)>>, <<>>),
   Content("go", <<Line("func", 0, Foo, <<>>, <<"{">>), Other(0, <<"}">>)>>, <<>>),
   Content("garbage", <<Other(0, <<"}">>)>>, <<>>),
   Content("blank", <<BlankLine>>, <<>>)}

SourceFiles ==
  {[ext |-> e, readable |-> r, content |-> c] :
     e \in Extensions, r \in BOOLEAN, c \in SampleContents}

InitParse ==
  /\ parImpl \in {"core", "cli"}
  /\ parFile \in SourceFiles
  /\ parPc = "start"
  /\ parLanguage = "none"
  /\ extractorRan = {}
  /\ parReturn = "pending"
  /\ parsedCode = <<>>
  /\ parseError = NoError
  /\ baseResult = NewBaseResult
  /\ GenIdle
  /\ RenIdle
  /\ WatIdle

\* the call ends by throwing error
ParseThrow(error) ==
  /\ parPc' = "done"
  /\ parReturn' = "throw"
  /\ parseError' = error
  /\ UNCHANGED <<parLanguage, extractorRan, parsedCode>>

\* the call ends by returning null
ParseReturnNull ==
  /\ parPc' = "done"
  /\ parReturn' = "null"
  /\ UNCHANGED <<parLanguage, extractorRan, parsedCode, parseError>>

\* fs.readFile(filePath, 'utf-8')
ParseReadFile ==
  /\ parPc = "start"
  /\ IF parFile.readable
       THEN /\ parPc' = "dispatch"
            /\ UNCHANGED <<parLanguage, extractorRan, parReturn, parsedCode, parseError>>
       ELSE ParseThrow(Failure("ENOENT", <<>>))
  /\ UNCHANGED <<parImpl, parFile, baseResult>>
  /\ UNCHANGED notPar

\* parseCode lines 13-18: the language of the lower-cased extension
CoreDispatch ==
  /\ parImpl = "core"
  /\ parPc = "dispatch"
  /\ LET ext == toLowerCase(extname(parFile))
         language == getLanguageFromExtension(ext)
     IN  IF language = "none"
           THEN ParseThrow(Failure("Unsupported file extension: ", ext))
           ELSE /\ parPc' = "extract"
                /\ parLanguage' = language
                /\ UNCHANGED <<extractorRan, parReturn, parsedCode, parseError>>
  /\ UNCHANGED <<parImpl, parFile, baseResult>>
  /\ UNCHANGED notPar

\* the extractor that the switch of parseCode calls, and what it answers
\* what the call leaves in the lists of the base record: { ...baseResult } copies
\* the references, so the lists the tree-walk extractors push to are the lists
\* of the base record; the line-based extractors assign new lists to the copy
BaseAfter(language, result, base) ==
  IF language \in {"javascript", "typescript"} /\ ~result.threw
    THEN ListsOf(result.module[1])
    ELSE base

Called(name, language, result, base) ==
  [name |-> name, result |-> result, base |-> BaseAfter(language, result, base)]

CoreExtractor(language, content, base) ==
  CASE language = "javascript" ->
         Called("parseJavaScript", language, parseJavaScript(content, base), base)
    [] language = "typescript" ->
         Called("parseTypeScript", language, parseTypeScript(content, base), base)
    [] language = "python" ->
         Called("parsePython", language, Extracted(parsePython(content, base)), base)
    [] language = "go" ->
         Called("parseGo", language, Extracted(parseGo(content, base)), base)

\* the extractor that the switch of parseFile calls, and what it answers
CliExtractor(language, content) ==
  CASE language \in {"javascript", "typescript"} ->
         [name |-> "parseJSLike", result |-> parseJSLike(content, language)]
    [] language = "python" ->
         [name |-> "parsePython", result |-> Extracted(ParsedFile("python", "parsePython"))]
    [] language = "go" ->
         [name |-> "parseGo", result |-> Extracted(ParsedFile("go", "parseGo"))]

\* the extractor runs; its result or its error is the outcome of the call
RunExtractor(call) ==
  /\ parPc' = "done"
  /\ extractorRan' = extractorRan \cup {call.name}
  /\ parReturn' = IF call.result.threw THEN "throw" ELSE "module"
  /\ parsedCode' = call.result.module
  /\ parseError' = call.result.error
  /\ baseResult' = call.base
  /\ UNCHANGED <<parImpl, parFile, parLanguage>>
  /\ UNCHANGED notPar

\* parseCode lines 30-41
CoreExtract ==
  /\ parImpl = "core"
  /\ parPc = "extract"
  /\ RunExtractor(CoreExtractor(parLanguage, parFile.content, baseResult))

\* parseFile lines 33-49: null for blank text and for an unknown extension
CliDispatch ==
  /\ parImpl = "cli"
  /\ parPc = "dispatch"
  /\ LET extension == toLowerCase(extname(parFile))
     IN  IF parFile.content.looks = "blank" \/ extension \notin SupportedExtensions
           THEN ParseReturnNull
           ELSE /\ parPc' = "extract"
                /\ parLanguage' = getLanguageFromExtension(extension)
                /\ UNCHANGED <<extractorRan, parReturn, parsedCode, parseError>>
  /\ UNCHANGED <<parImpl, parFile, baseResult>>
  /\ UNCHANGED notPar

\* parseFile lines 39-46
CliExtract ==
  /\ parImpl = "cli"
  /\ parPc = "extract"
  /\ LET call == CliExtractor(parLanguage, parFile.content)
     IN  RunExtractor([name |-> call.name, result |-> call.result, base |-> baseResult])

NextParse ==
  \/ ParseReadFile
  \/ CoreDispatch
  \/ CoreExtract
  \/ CliDispatch
  \/ CliExtract

SpecParse == InitParse /\ [][NextParse]_vars

(***************************************************************************)
(* parseCode over the texts of up to MaxLines lines (Python, Go) and over  *)
(* the trees of up to MaxFuncs visited nodes (JavaScript).  The line texts *)
(* are built from two families of lines: one varies indentation, receivers *)
(* and braces, the other varies the import and export lines and the names. *)
(***************************************************************************)
Indents == {0, 1}

\* the indentation of a line inside a nested block
DeepIndent == 2

NonEmptyTexts(lineSet) == {t \in SeqsUpTo(lineSet, MaxLines) : Len(t) > 0}

PythonSpanLines ==
  {Line(k, n, <<"f">>, <<>>, <<>>) : k \in {"def", "class"}, n \in Indents}
  \cup {Other(n, <<>>) : n \in Indents \cup {DeepIndent}} \cup {BlankLine}

PythonEdgeLines ==
  {Line(k, 0, <<"f">>, <<>>, <<>>) : k \in {"import", "from", "all", "def"}}
  \cup {Other(0, <<>>)}

GoSpanLines ==
  {Line("func", 0, bar, <<>>, b) : b \in {<<>>, <<"{">>, <<"{", "}">>}}
  \cup {Line("func", 0, bar, Foo, <<"{">>)}
  \cup {Line("struct", 0, Foo, <<>>, b) : b \in {<<"{">>, <<"{", "}">>}}
  \cup {Other(0, b) : b \in {<<>>, <<"{">>, <<"}">>, <<"{", "}">>}}

GoEdgeLines ==
  {Line(k, 0, n, <<>>, <<"{", "}">>) : k \in {"func", "struct"}, n \in {Foo, bar}}
  \cup {Line("func", 0, underscored, <<>>, <<"{", "}">>)}
  \cup {Line(k, 0, <<"p">>, <<>>, <<>>) : k \in {"import1", "importopen", "close", "quoted"}}
  \cup {Other(0, <<>>)}

\* parameter lists of a def line: with and without annotation and default
PythonParams ==
  {Param("a", t, d) : t \in {"", "int"}, d \in {"", "1"}} \cup {Param("a", "Dict[str,int]", "")}

PythonSignatureLines ==
  {Signed(Line("def", 0, <<"f">>, <<>>, <<>>), ps, r) :
     ps \in SeqsUpTo(PythonParams, MaxParams), r \in {"", "int"}}

\* parameter lists of a func line: named and unnamed parameters
GoParams == {Param(n, "int", "") : n \in {"", "a"}}

\* the receiver (f *Foo)
PointerReceiver == <<"f", " ", "*">> \o Foo

\* the receiver (s *FooService), of a type whose name contains Foo
OtherReceiver == <<"s", " ", "*">> \o Foo \o <<"S", "e", "r", "v", "i", "c", "e">>

GoSignatureLines ==
  {Signed(Line("func", 0, bar, r, <<"{", "}">>), ps, ret) :
     r \in {<<>>, Foo, PointerReceiver, OtherReceiver}, ps \in SeqsUpTo(GoParams, MaxParams), ret \in {"", "string"}}

\* a def line alone; a struct and a func line
SignatureTexts ==
  [python |-> {<<l>> : l \in PythonSignatureLines},
   go |-> {<<Line("struct", 0, Foo, <<>>, <<"{", "}">>), l>> : l \in GoSignatureLines}]

\* node.loc as @babel/parser sets it, or absent
Locs == {<<>>} \cup {Loc(a, b) : a \in 1..MaxLines, b \in 1..MaxLines}

VisitedNodes ==
  {Node("FunctionDeclaration", TRUE, TRUE, l) :
     l \in {l \in Locs : l = <<>> \/ l[1].start <= l[1].end}}
  \cup {Node("ClassDeclaration", TRUE, TRUE, l) : l \in {<<>>, Loc(1, MaxLines)}}
  \cup {Node("VariableDeclarator", TRUE, f, Loc(1, 1)) : f \in BOOLEAN}
  \cup {Node("FunctionDeclaration", FALSE, TRUE, Loc(1, 1))}

\* the declaration node that an export declaration of that kind encloses and
\* traverse visits after it
Declared(declaration) ==
  CASE declaration = "function" -> <<Node("FunctionDeclaration", TRUE, TRUE, Loc(1, 1))>>
    [] declaration = "class" -> <<Node("ClassDeclaration", TRUE, TRUE, Loc(1, 1))>>
    [] declaration = "variable" -> <<Node("VariableDeclarator", TRUE, FALSE, Loc(1, 1))>>
    [] OTHER -> <<>>

\* the nodes visited for one statement of a module: a function or a class
\* declaration, an import, a named export (of a declaration, or export { f }),
\* a default export (of a declaration or of an expression)
Statements ==
  {Declared(d) : d \in {"function", "class"}}
  \cup {<<Node("ImportDeclaration", FALSE, FALSE, Loc(1, 1))>>}
  \cup {<<Exporting(Node("ExportNamedDeclaration", TRUE, FALSE, Loc(1, 1)), d)>> \o Declared(d) :
          d \in {"function", "variable", "class", "specifiers"}}
  \cup {<<Exporting(Node("ExportDefaultDeclaration", d = "function", FALSE, Loc(1, 1)), d)>>
          \o Declared(d) : d \in {"function", "expression"}}

ExtractContents ==
  {Content("python", t, <<>>) : t \in NonEmptyTexts(PythonSpanLines)
       \cup NonEmptyTexts(PythonEdgeLines) \cup SignatureTexts.python}
  \cup {Content("go", t, <<>>) : t \in NonEmptyTexts(GoSpanLines)
       \cup NonEmptyTexts(GoEdgeLines) \cup SignatureTexts.go}
  \cup {Content("javascript", JsLines, a) : a \in SeqsUpTo(VisitedNodes, MaxFuncs)}
  \cup {Content("javascript", JsLines, Concat(a)) : a \in SeqsUpTo(Statements, MaxFuncs)}

\* the extensions under which a text of that language is stored: a text
\* without type annotations can be a .js or a .ts file
ExtensionsOf(looks) ==
  CASE looks = "python" -> {Ext(<<"p", "y">>)}
    [] looks = "go"     -> {Ext(<<"g", "o">>)}
    [] OTHER            -> {Ext(<<"j", "s">>), Ext(<<"t", "s">>)}

InitExtract ==
  /\ parImpl = "core"
  /\ \E c \in ExtractContents : \E e \in ExtensionsOf(c.looks) :
        parFile = [ext |-> e, readable |-> TRUE, content |-> c]
  /\ parPc = "start"
  /\ parLanguage = "none"
  /\ extractorRan = {}
  /\ parReturn = "pending"
  /\ parsedCode = <<>>
  /\ parseError = NoError
  /\ baseResult = NewBaseResult
  /\ GenIdle
  /\ RenIdle
  /\ WatIdle

NextExtract ==
  \/ ParseReadFile
  \/ CoreDispatch
  \/ CoreExtract

SpecExtract == InitExtract /\ [][NextExtract]_vars

(***************************************************************************)
(* The watch command.  The process runs one event loop: a handler runs to  *)
(* its end or to its next await before another task is taken.  An action   *)
(* below is one such task.                                                 *)
(***************************************************************************)
InitWatch ==
  /\ watchImpl \in {"core", "cli"}
  /\ watchPc = "start"
  /\ timeoutId = "null"
  /\ isGenerating = FALSE
  /\ regenPc = "idle"
  /\ inProgress = 0
  /\ events = 0
  /\ unserved = FALSE
  /\ unlaunched = FALSE
  /\ skipped = FALSE
  /\ GenIdle
  /\ RenIdle
  /\ ParIdle

\* an event loop on which every task may run at any time
NeverBlocked == TRUE

\* watch.ts lines 91-94: execSync returns when the child process has ended;
\* until then no timer callback and no watcher listener of this process runs
EventLoopFree == regenPc # "execSync"

\* watch.ts lines 62-76: regenerateDocumentation up to its await
regenerateDocumentation ==
  IF isGenerating
    THEN /\ skipped' = TRUE
         /\ UNCHANGED <<isGenerating, regenPc, inProgress, unserved>>
    ELSE /\ isGenerating' = TRUE
         /\ regenPc' = "import"
         /\ inProgress' = inProgress + 1
         /\ unserved' = FALSE
         /\ UNCHANGED skipped

\* watch.ts lines 104-116: clearTimeout, then setTimeout
handleFileChange ==
  /\ timeoutId' = "pending"
  /\ unserved' = TRUE
  /\ unlaunched' = TRUE

\* watch.ts lines 124-130: the listener of 'ready'
CoreWatcherReady ==
  /\ watchImpl = "core"
  /\ watchPc = "start"
  /\ EventLoopFree
  /\ watchPc' = "watching"
  /\ regenerateDocumentation
  /\ UNCHANGED <<watchImpl, timeoutId, events, unlaunched>>
  /\ UNCHANGED notWat

\* watch.ts lines 120-122: the listeners of 'add', 'change' and 'unlink'
CoreWatcherEmit ==
  /\ watchImpl = "core"
  /\ events < MaxEvents
  /\ EventLoopFree
  /\ events' = events + 1
  /\ handleFileChange
  /\ UNCHANGED <<watchImpl, watchPc, isGenerating, regenPc, inProgress, skipped>>
  /\ UNCHANGED notWat

\* watch.ts lines 113-115: the callback of setTimeout
CoreTimerFires ==
  /\ watchImpl = "core"
  /\ timeoutId = "pending"
  /\ EventLoopFree
  /\ timeoutId' = "fired"
  /\ regenerateDocumentation
  /\ UNCHANGED <<watchImpl, watchPc, events, unlaunched>>
  /\ UNCHANGED notWat

\* watch.ts lines 78-94: import('child_process') resolves and execSync
\* launches the generate command
CoreImportResolves ==
  /\ watchImpl = "core"
  /\ regenPc = "import"
  /\ regenPc' = "execSync"
  /\ unlaunched' = FALSE
  /\ UNCHANGED <<watchImpl, watchPc, timeoutId, isGenerating, inProgress, events,
                 unserved, skipped>>
  /\ UNCHANGED notWat

\* watch.ts lines 91-100: execSync returns or throws; catch and finally
CoreExecSyncReturns ==
  /\ watchImpl = "core"
  /\ regenPc = "execSync"
  /\ regenPc' = "idle"
  /\ isGenerating' = FALSE
  /\ inProgress' = inProgress - 1
  /\ UNCHANGED <<watchImpl, watchPc, timeoutId, events, unserved, unlaunched, skipped>>
  /\ UNCHANGED notWat

\* parser.ts line 464: await generateCommand(source, options)
CliStartInitial ==
  /\ watchImpl = "cli"
  /\ watchPc = "start"
  /\ watchPc' = "initial"
  /\ inProgress' = inProgress + 1
  /\ UNCHANGED <<watchImpl, timeoutId, isGenerating, regenPc, events, unserved,
                 unlaunched, skipped>>
  /\ UNCHANGED notWat

\* parser.ts lines 464-484, 498-500: the first generation settles; the
\* listeners are attached after it, or the command exits
CliInitialSettles ==
  /\ watchImpl = "cli"
  /\ watchPc = "initial"
  /\ \E fulfilled \in BOOLEAN :
       watchPc' = IF fulfilled THEN "watching" ELSE "exited"
  /\ inProgress' = inProgress - 1
  /\ UNCHANGED <<watchImpl, timeoutId, isGenerating, regenPc, events, unserved,
                 unlaunched, skipped>>
  /\ UNCHANGED notWat

\* parser.ts lines 424, 438: a call of the debounced regenerateDocs (re)starts
\* the timer
regenerateDocs ==
  /\ timeoutId' = "pending"
  /\ unserved' = TRUE
  /\ unlaunched' = TRUE

\* parser.ts lines 450-460, 469-481: the watcher emits 'add', 'change' or
\* 'unlink'; before line 469 no listener is attached
CliWatcherEmit ==
  /\ watchImpl = "cli"
  /\ watchPc # "exited"
  /\ events < MaxEvents
  /\ events' = events + 1
  /\ IF watchPc = "watching"
       THEN regenerateDocs
       ELSE UNCHANGED <<timeoutId, unserved, unlaunched>>
  /\ UNCHANGED <<watchImpl, watchPc, isGenerating, regenPc, inProgress, skipped>>
  /\ UNCHANGED notWat

\* parser.ts lines 424-431: the timer of debounce expires and the async
\* function is invoked; it runs to await generateCommand(...)
CliTimerFires ==
  /\ watchImpl = "cli"
  /\ timeoutId = "pending"
  /\ timeoutId' = "fired"
  /\ inProgress' = inProgress + 1
  /\ unserved' = FALSE
  /\ unlaunched' = FALSE
  /\ UNCHANGED <<watchImpl, watchPc, isGenerating, regenPc, events, skipped>>
  /\ UNCHANGED notWat

\* parser.ts lines 428-437: generateCommand of a regeneration settles
CliGenerateSettles ==
  /\ watchImpl = "cli"
  /\ watchPc = "watching"
  /\ inProgress > 0
  /\ inProgress' = inProgress - 1
  /\ UNCHANGED <<watchImpl, watchPc, timeoutId, isGenerating, regenPc, events,
                 unserved, unlaunched, skipped>>
  /\ UNCHANGED notWat

NextWatch ==
  \/ CoreWatcherReady
  \/ CoreWatcherEmit
  \/ CoreTimerFires
  \/ CoreImportResolves
  \/ CoreExecSyncReturns
  \/ CliStartInitial
  \/ CliInitialSettles
  \/ CliWatcherEmit
  \/ CliTimerFires
  \/ CliGenerateSettles

SpecWatch == InitWatch /\ [][NextWatch]_vars

\* The event loop takes every task that stays ready: the 'ready' event of the
\* watcher, an expired timer, the resolved import, and the return of execSync
\* once the child process has ended.  File events are the environment's and
\* need not come.
SpecWatchFair ==
  /\ InitWatch
  /\ [][NextWatch]_vars
  /\ WF_vars(CoreWatcherReady)
  /\ WF_vars(CoreTimerFires)
  /\ WF_vars(CoreImportResolves)
  /\ WF_vars(CoreExecSyncReturns)

(***************************************************************************)
(* Properties of the parsers.                                              *)
(***************************************************************************)
\* the extractor that the extension alone calls for, "none" when unsupported
ExtractorForExtension(ext) ==
  CASE ext \in {Ext(<<"j", "s">>), Ext(<<"j", "s", "x">>)} -> "parseJavaScript"
    [] ext \in {Ext(<<"t", "s">>), Ext(<<"t", "s", "x">>)} -> "parseTypeScript"
    [] ext = Ext(<<"p", "y">>)                             -> "parsePython"
    [] ext = Ext(<<"g", "o">>)                             -> "parseGo"
    [] OTHER                                               -> "none"

TypeScriptPlugin == parImpl = "cli" \/ parLanguage = "typescript"

\* C8 as stated: when the text of a JavaScript or TypeScript file is rejected
\* by the parser, the call throws an error that carries the parser's message
\* and returns no Module, by fallback or otherwise
C8_NoFallback ==
  (/\ parPc = "done"
   /\ parLanguage \in {"javascript", "typescript"}
   /\ extractorRan # {}
   /\ ~BabelAccepts(parFile.content, TypeScriptPlugin)) =>
     /\ parReturn = "throw"
     /\ parsedCode = <<>>
     /\ parseError.detail = BabelMessage(parFile.content)

SymbolsOf(module) ==
  Range(module.functions) \cup Range(module.classes)
    \cup UNION {Range(c.methods) : c \in Range(module.classes)}

\* C9: every function, method and type of a returned Module has startLine and
\* endLine both 0, or 1 <= startLine <= endLine; the symbols of the line-based
\* extractors end within the text
C9_LineNumbers ==
  \A module \in Range(parsedCode) : \A sym \in SymbolsOf(module) :
     /\ \/ sym.startLine = 0 /\ sym.endLine = 0
        \/ 1 <= sym.startLine /\ sym.startLine <= sym.endLine
     /\ module.language \in {"python", "go"} =>
          sym.endLine <= Len(parFile.content.lines)

\* a Python method whose lines were re-based from the class body
C9_Witness ==
  /\ parPc = "done"
  /\ \E module \in Range(parsedCode) :
       /\ module.language = "python"
       /\ \E c \in Range(module.classes) : \E method \in Range(c.methods) :
            /\ method.startLine > c.startLine
            /\ method.endLine > method.startLine

InSourceOrder(edges) ==
  \A i, j \in 1..Len(edges) : i < j => edges[i].startLine <= edges[j].startLine

\* C10 as stated: in the imports and in the exports of a returned Module no
\* edge comes before an edge that starts on an earlier line
C10_SourceOrder ==
  \A module \in Range(parsedCode) :
     InSourceOrder(module.imports) /\ InSourceOrder(module.exports)

FunctionsOf(module) ==
  Range(module.functions) \cup UNION {Range(c.methods) : c \in Range(module.classes)}

\* C11 as stated: every function of a returned Module has a string returnType
\* and a string type on every parameter, carries the flags isAsync,
\* isGenerator and isStatic, and carries comments, visibility and, on every
\* parameter, defaultValue, as null if not as a value
C11_NormalisedFunctions ==
  \A module \in Range(parsedCode) : \A func \in FunctionsOf(module) :
     /\ func.returnType # ""
     /\ {"returnType", "isAsync", "isGenerator", "isStatic", "comments", "visibility"}
          \subseteq func.keys
     /\ \A k \in 1..Len(func.parameters) :
          /\ func.parameters[k].type # ""
          /\ {"type", "defaultValue"} \subseteq func.parameters[k].keys

IsUpperCaseLetter(c) == c \in Range(Upper)

ExportEdgesOf(module, sym, type) ==
  {k \in 1..Len(module.exports) :
     /\ module.exports[k].name = sym.name
     /\ module.exports[k].type = type
     /\ module.exports[k].startLine = sym.startLine}

\* C12 as stated: a Go function or struct has an export edge exactly when its
\* name starts with an upper-case letter, and an exported function has exactly
\* one edge with its name, kind function and its startLine
C12_GoExports ==
  \A module \in Range(parsedCode) :
     module.language = "go" =>
       /\ \A func \in Range(module.functions) :
            /\ ExportEdgesOf(module, func, "function") # {} <=> IsUpperCaseLetter(func.name[1])
            /\ IsUpperCaseLetter(func.name[1]) =>
                 Cardinality(ExportEdgesOf(module, func, "function")) = 1
       /\ \A struct \in Range(module.classes) :
            ExportEdgesOf(module, struct, "struct") # {} <=> IsUpperCaseLetter(struct.name[1])

\* the link targets of an index, in the order of its entries
LinksOf(content) == SelectSeq(content, LAMBDA tok : tok.t = "href")

\* the artifact name of a source file: base name without extension, then the
\* extension of the renderer
ArtifactNameOf(file, format) ==
  <<file.stem, CASE format = "markdown" -> "md" [] format = "html" -> "html"
                 [] OTHER -> "json">>

\* C13 as stated: the index has one entry per input result, in input order,
\* and each entry links to the artifact name of its source file
C13_IndexEntries ==
  \A a \in artifacts :
     a.owner = <<"index">> =>
       LinksOf(a.content) =
         Concat([k \in 1..Len(renResults) |->
                   Spell("href", ArtifactNameOf(renResults[k].file, renFormat))])

\* the tokens of one kind, in the order of the text
TokensOf(content, t) == SelectSeq(content, LAMBDA tok : tok.t = t)

\* the value stored under `key` in the documentation object of the combined
\* document: the tokens between the key and the next key
ValueOfKey(content, key) ==
  LET p == CHOOSE k \in 1..Len(content) : content[k] = Tok("key", key)
      later == {k \in (p + 1)..Len(content) : content[k].t = "key"}
      q == IF later = {} THEN Len(content) + 1
                         ELSE CHOOSE k \in later : \A j \in later : k <= j
  IN SubSeq(content, p + 1, q - 1)

RECURSIVE SumOver(_, _)
SumOver(S, count) ==
  IF S = {} THEN 0
            ELSE LET k == CHOOSE x \in S : TRUE
                 IN count[k] + SumOver(S \ {k}, count)

\* C14: the combined JSON document has one key per distinct base name without
\* extension; the entry of a key is that of the last input file with that base
\* name; the summary totals of functions, classes and exports are the sums
\* over all input files; the languages are the distinct grammars, each once.
C14_CombinedDocument ==
  \A a \in artifacts :
     a.owner = <<"combined">> =>
       LET I == 1..Len(renResults)
           stems == {renResults[k].file.stem : k \in I}
           keys == TokensOf(a.content, "key")
           langs == TokensOf(a.content, "languages")
           total(field) ==
             ToString(SumOver(I, [k \in I |->
                        IF field \in renResults[k].documentation.has
                          THEN Len(renResults[k].documentation[field]) ELSE 0]))
       IN /\ Len(keys) = Cardinality(stems)
          /\ {keys[k].v : k \in 1..Len(keys)} = stems
          /\ \A k \in I :
               (\A j \in I : j > k => renResults[j].file.stem # renResults[k].file.stem) =>
                 /\ TokensOf(ValueOfKey(a.content, renResults[k].file.stem), "file")
                      = Spell("file", renResults[k].file.path)
                 /\ TokensOf(ValueOfKey(a.content, renResults[k].file.stem), "language")
                      = <<Tok("language", renResults[k].language)>>
          /\ TokensOf(a.content, "totalFunctions") = <<Tok("totalFunctions", total("functions"))>>
          /\ TokensOf(a.content, "totalClasses") = <<Tok("totalClasses", total("classes"))>>
          /\ TokensOf(a.content, "totalExports") = <<Tok("totalExports", total("exports"))>>
          /\ Len(langs) = Cardinality({renResults[k].language : k \in I})
          /\ {langs[k].v : k \in 1..Len(langs)} = {renResults[k].language : k \in I}

\* a combined document written for two files of different languages that
\* share a base name, with functions, classes and exports to add up
C14_Witness ==
  /\ \E a \in artifacts : a.owner = <<"combined">>
  /\ \E i, j \in 1..Len(renResults) :
       /\ i < j
       /\ renResults[i].file.stem = renResults[j].file.stem
       /\ renResults[i].language # renResults[j].language
       /\ Len(renResults[i].documentation.functions) > 0
       /\ Len(renResults[j].documentation.classes) > 0
       /\ Len(renResults[j].documentation.exports) > 0

\* the first position after p that holds a token of one of the kinds, or the
\* position after the end of the text
NextOf(text, p, kinds) ==
  LET later == {k \in (p + 1)..Len(text) : text[k].t \in kinds}
  IN IF later = {} THEN Len(text) + 1 ELSE CHOOSE k \in later : \A j \in later : k <= j

PositionsOf(text, from, to, t) ==
  SelectSeq([k \in 1..Len(text) |-> k], LAMBDA k : from <= k /\ k < to /\ text[k].t = t)

\* JSON.parse of one function object, read as a function of the prose: null is
\* read as an absent field and signature.returnType as returns.type
ParseFunction(text, p) ==
  LET fields == SubSeq(text, p, NextOf(text, p, {"function", "class", "export", "usage"}) - 1)
      value(t) == TokensOf(fields, t)[1].v
  IN FuncProse(text[p].v,
               (IF value("function-description") # "null" THEN {"description"} ELSE {})
               \cup (IF TokensOf(fields, "param") # <<>> THEN {"parameters"} ELSE {})
               \cup {"returns"}
               \cup (IF value("example") # "null" THEN {"example"} ELSE {}),
               value("returnType"))

ParseFunctions(text, from, to) ==
  LET at == PositionsOf(text, from, to, "function")
  IN [n \in 1..Len(at) |-> ParseFunction(text, at[n])]

\* JSON.parse of the `documentation` object that generateJSONForFile wrote
ParseBack(text) ==
  LET end == Len(text) + 1
      value(t) == TokensOf(text, t)[1].v
      firstClass == NextOf(text, 0, {"class", "export", "usage"})
      classAt == PositionsOf(text, 1, end, "class")
      exportAt == PositionsOf(text, 1, end, "export")
      title == TokensOf(text, "title")
  IN Titled(
      Doc({"title", "functions", "classes", "exports"}
         \cup (IF value("description") # "null" THEN {"description"} ELSE {})
         \cup (IF value("usage") # "null" THEN {"usage"} ELSE {})
         \cup (IF value("notes") # "null" THEN {"notes"} ELSE {}),
         ParseFunctions(text, 1, firstClass),
         [n \in 1..Len(classAt) |->
            ClassProse(text[classAt[n]].v,
                       ParseFunctions(text, classAt[n],
                                      NextOf(text, classAt[n], {"class", "export", "usage"})))],
         [n \in 1..Len(exportAt) |-> ExportProse(text[exportAt[n]].v)]),
      [k \in 1..Len(title) |-> title[k].v])

\* C15: for the JSON renderer, parsing the text of a per-file artifact back
\* yields a Documentation equal to the Documentation that was rendered.
C15_RoundTrip ==
  \A a \in artifacts :
     \A k \in 1..Len(renResults) :
        (renFormat = "json" /\ a.owner = renResults[k].file.path) =>
           ParseBack(a.content) = renResults[k].documentation

\* one pass over the template: the first occurrence of each marker is replaced
\* by its value, and no substituted text is looked at again
SinglePass(template, values) ==
  Concat([k \in 1..Len(template) |->
            IF /\ template[k].t = "slot"
               /\ template[k].v \in DOMAIN values
               /\ \A j \in 1..(k - 1) : template[j] # template[k]
              THEN values[template[k].v]
              ELSE <<template[k]>>])

Reverse(seq) == [k \in 1..Len(seq) |-> seq[Len(seq) + 1 - k]]

\* C16: the hypertext artifact of a file is the template with each marker
\* replaced literally in a single pass: substituted text is not scanned for
\* markers or replacement patterns, and processing the markers in another
\* order gives the same artifact.
C16_SinglePassSubstitution ==
  \A a \in artifacts :
     \A k \in 1..Len(renResults) :
        (renFormat = "html" /\ a.owner = renResults[k].file.path) =>
           /\ a.content = SinglePass(renTemplate, SlotValues(renResults[k]))
           /\ a.content = SubstituteSlots(renTemplate, Reverse(SlotNames),
                                          SlotValues(renResults[k]))

\* the 1-based number of the last line of the block whose header is line
\* `header` of the text: the line before the first later non-blank line that
\* is indented no deeper than the header, or the last line of the text
BlockEnd(text, header) ==
  LET closing == {n \in (header + 1)..Len(text) :
                    /\ text[n].kind # "blank"
                    /\ text[n].indent <= text[header].indent}
  IN IF closing = {} THEN Len(text) ELSE Min(closing) - 1

\* C17: the endLine of every Python function, method and class is the number
\* of the line immediately before the first later non-blank line indented no
\* deeper than its header, or of the last line of the text; a blank line never
\* ends a block.
C17_PythonEndLine ==
  \A module \in Range(parsedCode) :
     module.language = "python" =>
       \A sym \in SymbolsOf(module) :
          /\ parFile.content.lines[sym.startLine].kind \in {"def", "class"}
          /\ sym.endLine = BlockEnd(parFile.content.lines, sym.startLine)

\* a function whose block holds a blank line and is closed by a later line
C17_Witness ==
  /\ parPc = "done"
  /\ \E module \in Range(parsedCode) :
       /\ module.language = "python"
       /\ \E f \in Range(module.functions) :
            /\ f.endLine < Len(parFile.content.lines)
            /\ \E n \in (f.startLine + 1)..f.endLine :
                 parFile.content.lines[n].kind = "blank"

\* the braces of the text from line `header` on, each with its line number
BracesFrom(text, header) ==
  Concat([n \in 1..(Len(text) - header + 1) |->
            [k \in 1..Len(text[header + n - 1].braces) |->
               [line |-> header + n - 1, char |-> text[header + n - 1].braces[k]]]])

\* the brace depth after the first p braces
DepthAfter(chars, p) ==
  Cardinality({q \in 1..p : chars[q].char = "{"})
    - Cardinality({q \in 1..p : chars[q].char = "}"})

\* the closing braces that bring the depth back to zero after an opening brace
ClosingBraces(chars) ==
  {p \in 1..Len(chars) :
     /\ chars[p].char = "}"
     /\ DepthAfter(chars, p) = 0
     /\ \E q \in 1..(p - 1) : chars[q].char = "{"}

\* C18: the endLine of a Go function, method or struct is the line of the
\* first closing brace, scanning from the header line, that returns the brace
\* depth to zero after an opening brace was seen; the closing brace of a nested
\* pair does not end the block.
C18_GoEndLine ==
  \A module \in Range(parsedCode) :
     module.language = "go" =>
       \A sym \in SymbolsOf(module) :
          LET chars == BracesFrom(parFile.content.lines, sym.startLine)
          IN  /\ parFile.content.lines[sym.startLine].kind \in {"func", "struct"}
              /\ ClosingBraces(chars) # {} =>
                   sym.endLine = chars[Min(ClosingBraces(chars))].line

\* a function whose body holds a nested pair of braces on a line before the
\* line of its own closing brace
C18_Witness ==
  /\ parPc = "done"
  /\ \E module \in Range(parsedCode) :
       /\ module.language = "go"
       /\ \E f \in Range(module.functions) :
            LET chars == BracesFrom(parFile.content.lines, f.startLine)
            IN  /\ ClosingBraces(chars) # {}
                /\ \E p \in 1..Len(chars) :
                     /\ chars[p].char = "}"
                     /\ chars[p].line < f.endLine
                     /\ DepthAfter(chars, p) > 0

\* the type a receiver names: what follows the last blank or asterisk
ReceiverType(recv) ==
  LET cut == {k \in 1..Len(recv) : recv[k] \in {" ", "*"}}
  IN  SubSeq(recv, (IF cut = {} THEN 0 ELSE CHOOSE k \in cut : \A j \in cut : j <= k) + 1,
             Len(recv))

\* C19: a Go function declared with a receiver of type T, by value or by
\* pointer, where struct T is declared in the same file, is in the function
\* list of the module and in the method list of T, with the same name,
\* parameters, return type, startLine and endLine.
C19_ReceiverMethods ==
  \A module \in Range(parsedCode) :
     module.language = "go" =>
       \A n \in 1..Len(parFile.content.lines) :
          LET line == parFile.content.lines[n]
          IN  (line.kind = "func" /\ line.recv # <<>>) =>
                \A T \in Range(module.classes) :
                   T.name = ReceiverType(line.recv) =>
                     \E f \in Range(module.functions) : \E method \in Range(T.methods) :
                        /\ f.startLine = n
                        /\ f.name = line.name
                        /\ method.name = f.name
                        /\ method.parameters = f.parameters
                        /\ method.returnType = f.returnType
                        /\ method.startLine = f.startLine
                        /\ method.endLine = f.endLine

\* a struct Foo and a function with the receiver (f *Foo), parameters and a
\* return type
C19_Witness ==
  /\ parPc = "done"
  /\ \E module \in Range(parsedCode) :
       /\ module.language = "go"
       /\ \E T \in Range(module.classes) : \E method \in Range(T.methods) :
            /\ parFile.content.lines[method.startLine].recv = PointerReceiver
            /\ T.name = ReceiverType(PointerReceiver)
            /\ method.parameters # <<>>
            /\ method.returnType # "void"

NodesOf(ast, types) == SelectSeq(ast, LAMBDA n : n.type \in types)

\* C20: in a Module of the JavaScript or the TypeScript extractor, every
\* import declaration of the tree has an ImportEdge and every named or default
\* export declaration an ExportEdge; for a text without type annotations the
\* Module has the functions, classes, imports and exports that the extractor
\* of the other dialect returns for the same text.
C20_TreeWalkEdges ==
  \A module \in Range(parsedCode) :
     module.language \in {"javascript", "typescript"} =>
       LET ast == parFile.content.ast
       IN  /\ Len(module.imports) = Len(NodesOf(ast, {"ImportDeclaration"}))
           /\ Len(module.exports)
                = Len(NodesOf(ast, {"ExportNamedDeclaration", "ExportDefaultDeclaration"}))
           /\ ListsOf(module) = ListsOf(parseJavaScript(parFile.content, NewBaseResult).module[1])
           /\ ListsOf(module) = ListsOf(parseTypeScript(parFile.content, NewBaseResult).module[1])

\* C21: a Python parameter written with a name, with or without a ': type'
\* annotation and a '= default', is extracted with that name, with the written
\* type or 'Any', and with the written default or no default field; the return
\* type is the written one or 'Any'.
C21_PythonParameters ==
  \A module \in Range(parsedCode) :
     module.language = "python" =>
       \A f \in Range(module.functions) :
          LET line == parFile.content.lines[f.startLine]
          IN  /\ f.name = line.name
              /\ f.returnType = (IF line.returns = "" THEN "Any" ELSE line.returns)
              /\ Len(f.parameters) = Len(line.params)
              /\ \A k \in 1..Len(line.params) :
                   /\ f.parameters[k].name = line.params[k].name
                   /\ f.parameters[k].type
                        = (IF line.params[k].type = "" THEN "Any" ELSE line.params[k].type)
                   /\ f.parameters[k].defaultValue = line.params[k].default
                   /\ ("defaultValue" \in f.parameters[k].keys) = (line.params[k].default # "")

\* the 1-based numbers of the lines of the text that are headers of the kinds
HeaderLines(text, kinds) == {n \in 1..Len(text) : text[n].kind \in kinds}

\* C22: in a Python or Go Module the number of function symbols plus the
\* number of type symbols is the number of def and class lines, or of func and
\* struct lines, of the text: each header line gives exactly one symbol, which
\* starts on it, and no other line gives one.
C22_SymbolCount ==
  \A module \in Range(parsedCode) :
     module.language \in {"python", "go"} =>
       LET text == parFile.content.lines
           functionKind == IF module.language = "python" THEN "def" ELSE "func"
           typeKind == IF module.language = "python" THEN "class" ELSE "struct"
       IN  /\ Len(module.functions) + Len(module.classes)
                = Cardinality(HeaderLines(text, {functionKind, typeKind}))
           /\ \A n \in HeaderLines(text, {functionKind}) :
                Cardinality({k \in 1..Len(module.functions) :
                               module.functions[k].startLine = n}) = 1
           /\ \A n \in HeaderLines(text, {typeKind}) :
                Cardinality({k \in 1..Len(module.classes) :
                               module.classes[k].startLine = n}) = 1

\* a Python text with a class header, a def header inside the class and a
\* line that is no header
C22_Witness ==
  /\ parPc = "done"
  /\ \E module \in Range(parsedCode) :
       /\ module.language = "python"
       /\ Len(module.classes) = 1
       /\ Len(module.functions) = 1
       /\ getIndentation(parFile.content.lines[module.functions[1].startLine]) > 0
       /\ Len(parFile.content.lines) = 3

\* C23: every function in the method list of a Go struct T has a receiver
\* whose type is T itself, not a type whose name contains the name of T.
C23_ExactReceiver ==
  \A module \in Range(parsedCode) :
     module.language = "go" =>
       \A T \in Range(module.classes) : \A method \in Range(T.methods) :
          ReceiverType(parFile.content.lines[method.startLine].recv) = T.name

\* C24: after hypertext rendering with the built-in or the shipped template,
\* of prose that holds no marker text, the artifact of a file holds no marker:
\* every occurrence of every marker has been replaced.
C24_NoMarkerLeft ==
  \A a \in artifacts :
     \A k \in 1..Len(renResults) :
        (/\ renFormat = "html"
         /\ a.owner = renResults[k].file.path
         /\ renTemplate \in {getDefaultHTMLTemplate, ShippedTemplate}
         /\ renResults[k].documentation.title \in {<<>>, <<"T">>}) =>
           \A n \in 1..Len(a.content) : a.content[n].t # "slot"

\* C25: when a render call has finished, every input file has its own
\* artifact: no per-file artifact was replaced by the artifact of another file
\* or by the index, and the index was not replaced either.
C25_DistinctArtifacts ==
  renPc = "done" =>
    /\ \A k \in 1..Len(renResults) :
         \E a \in artifacts : a.owner = renResults[k].file.path
    /\ Cardinality({a \in artifacts : a.owner \notin {<<"index">>, <<"combined">>}})
         = Len(renResults)
    /\ \E a \in artifacts : a.owner = <<"index">>

\* C26: the startLine and endLine of every method of a Python class are the
\* lines of the file on which its header stands and its block ends, the same
\* as those of the module-level function found for that header, and they lie
\* within startLine..endLine of the class.
C26_MethodLines ==
  \A module \in Range(parsedCode) :
     module.language = "python" =>
       \A c \in Range(module.classes) : \A method \in Range(c.methods) :
          /\ parFile.content.lines[method.startLine].kind = "def"
          /\ parFile.content.lines[method.startLine].name = method.name
          /\ \E f \in Range(module.functions) :
               f.startLine = method.startLine /\ f.endLine = method.endLine
          /\ c.startLine <= method.startLine
          /\ method.startLine <= method.endLine
          /\ method.endLine <= c.endLine

\* a method whose block ends before the block of its class does
C26_Witness ==
  /\ parPc = "done"
  /\ \E module \in Range(parsedCode) :
       /\ module.language = "python"
       /\ \E c \in Range(module.classes) : \E method \in Range(c.methods) :
            /\ c.startLine < method.startLine
            /\ method.endLine < c.endLine

\* C27: a function defined inside the body of a Python class is in the method
\* list of that class only: no function of the module-level list starts on the
\* line on which a method of a class starts.
C27_MethodsOnlyInClass ==
  \A module \in Range(parsedCode) :
     module.language = "python" =>
       \A f \in Range(module.functions) :
          \A c \in Range(module.classes) : \A method \in Range(c.methods) :
             method.startLine # f.startLine


\* C28: an extractor leaves the lists of the base record it was handed as they
\* were, so that a second call with the same base record and the same text
\* returns the Module the first call returned
C28_BaseUnchanged ==
  (parImpl = "core" /\ parPc = "done" /\ extractorRan # {}) =>
    /\ baseResult = NewBaseResult
    /\ CoreExtractor(parLanguage, parFile.content, baseResult).result.module = parsedCode


\* C29: in both watch commands at most one regeneration is in progress at any
\* time
C29_SingleRegeneration == inProgress <= 1

\* C30 (as stated): in commands/watch.ts, once file events have stopped, every
\* event has been followed by a regeneration that started after it
C30_AsStated == <>[](watchImpl = "core" => ~unserved)

\* C30: in commands/watch.ts, once file events have stopped, every event has
\* been followed by a run of the generate command that was launched after it;
\* a timer that fires while isGenerating is set starts no regeneration
C30_EventCovered ==
  /\ <>[](watchImpl = "core" => ~unlaunched)
  /\ [][(watchImpl = "core" /\ isGenerating /\ timeoutId = "pending"
          /\ timeoutId' = "fired") => inProgress' = inProgress]_vars

\* a timer fired while a regeneration was in progress and no regeneration
\* started after the event, yet a generate run was launched after it and ended
C30_Witness ==
  /\ watchImpl = "core"
  /\ skipped
  /\ unserved
  /\ ~unlaunched
  /\ timeoutId = "fired"
  /\ regenPc = "idle"

====
